---- MODULE Spec2Model ----
(***************************************************************************)
(* State-machine model of atcoder/segtree.py (SegTree),                    *)
(* atcoder/lazysegtree.py (LazySegTree), atcoder/_bit.py, atcoder/dsu.py,  *)
(* atcoder/fenwicktree.py and atcoder/string.py.                           *)
(*                                                                         *)
(* Spec, LazySpec, ScenarioSpec: one instance of one of the two tree       *)
(* classes is constructed (Init) and then driven by its public methods,    *)
(* one action per method.  The caller's callables (op, e, mapping,         *)
(* composition, id_, and the predicate handed to max_right/min_left) are   *)
(* drawn from a small catalogue of algebras.  The other modules have one   *)
(* specification each; the variables of the modules a specification does   *)
(* not run stay None.                                                      *)
(***************************************************************************)
EXTENDS Integers, Sequences, FiniteSets, TLC

VARIABLES
    cls,    \* class of the instance: "SegTree" or "LazySegTree"
    alg,    \* which catalogue algebra supplies _op/_e/_mapping/_composition/_id
    n,      \* self._n
    log,    \* self._log
    size,   \* self._size
    d,      \* self._d   : function 0..2*size-1 -> S
    lz,     \* self._lz  : function 0..size-1 -> F  (<<>> for SegTree)
    arr,    \* the logical array the caller has built: the list given to the
            \* constructor, rewritten by every set and apply (not in the code)
    hist,   \* calls made so far by the scripted caller (ScenarioSpec only)
    point   \* the running call of get, set or apply(p, f) that PointSpec
            \* follows push by push: its locals p and i, its position, and
            \* the calls of _push and _update it has made so far

VARIABLES
    bit,     \* the running call of _ceil_pow2: its locals n, x and its position
    dsu,     \* the DSU instance and the edges merged so far
    fenwick, \* the FenwickTree instance and the amounts added so far
    str,     \* the running call of a function of atcoder/string.py
    math     \* the running call of a function of atcoder/_math.py

treeVars == <<cls, alg, n, log, size, d, lz, arr, hist, point>>

otherVars == <<bit, dsu, fenwick, str, math>>

vars == <<cls, alg, n, log, size, d, lz, arr, hist, point,
          bit, dsu, fenwick, str, math>>

----------------------------------------------------------------------------
(* Bounds of the model.                                                    *)

\* longest array the exhaustive specification constructs
MaxN == 3
\* strings of the "cat" monoid are cut to this many letters
MaxStrLen == 2
\* number of calls the scripted caller of ScenarioSpec makes
MaxCalls == 2
\* _ceil_pow2 is called with every argument of (0 - MaxArg)..MaxArg
MaxArg == 40
\* most vertices of a DSU
MaxDsuN == 4
\* most distinct edges merged into a DSU
MaxMerges == 4
\* longest FenwickTree
MaxFenN == 5
\* most add calls made on a FenwickTree
MaxAdds == 2
\* the strings handed to suffix_array repeat a word of up to MaxWord
\* characters; their lengths are 0..MaxShort and up to MaxOver above the
\* threshold of SA-IS
MaxWord == 3
MaxShort == 11
MaxOver == 1

\* z_algorithm and lcp_array are called with every string of up to MaxText
\* characters
MaxText == 6

\* _inv_gcd is called with every a in -MaxArg..MaxArg and b in 1..MaxMod
MaxMod == 10

\* _is_prime is called with every n in -3..MaxPrime, and with the larger
\* numbers of LargeInputs
MaxPrime == 130

----------------------------------------------------------------------------
(* The caller-supplied algebras.                                           *)
(*                                                                         *)
(*  "cat": S = strings over {a,b} cut to MaxStrLen letters,                *)
(*         op = concatenation (then cut), e = "" : associative and NOT     *)
(*         commutative.  F = all letter maps {a,b} -> {a,b}, mapping       *)
(*         applies the map letter by letter, composition(f,g) = f o g      *)
(*         (not commutative), id = the identity map.                       *)
(*  "mod": S = F = Z_2, op = + mod 2, e = 0, mapping(f,x) = f + x mod 2,   *)
(*         composition = + mod 2, id = 0.  The three laws                  *)
(*         mapping(id,x) = x, composition(f,id) = composition(id,f) = f,   *)
(*         mapping(composition(f,g),x) = mapping(f,mapping(g,x)) hold, but *)
(*         mapping(f,.) does not distribute over op.                       *)
(*  "sum": S = F = Int, op = +, e = 0, mapping = composition = +, id = 0   *)
(*         (the sum monoid with mapping = add of the written scenario).    *)
(*  "min": S = Int with +infinity, op = min, e = +infinity, mapping adds,  *)
(*         composition = +, id = 0 (the docstring's example).              *)

Letters == {"a", "b"}

ModVals == {0, 1}

Modulus == Cardinality(ModVals)

\* float('inf'): a number above every value the scripted caller can produce
Inf == 1000

Take(s, k) == IF Len(s) <= k THEN s ELSE SubSeq(s, 1, k)

Min2(x, y) == IF x <= y THEN x ELSE y

op(A, x, y) ==
    CASE A = "cat" -> Take(x \o y, MaxStrLen)
      [] A = "mod" -> (x + y) % Modulus
      [] A = "sum" -> x + y
      [] A = "min" -> Min2(x, y)

e(A) ==
    CASE A = "cat" -> <<>>
      [] A = "mod" -> 0
      [] A = "sum" -> 0
      [] A = "min" -> Inf

mapping(A, f, x) ==
    CASE A = "cat" -> [i \in 1..Len(x) |-> f[x[i]]]
      [] A = "mod" -> (f + x) % Modulus
      [] A = "sum" -> f + x
      [] A = "min" -> IF x = Inf THEN Inf ELSE f + x

composition(A, f, g) ==
    CASE A = "cat" -> [c \in Letters |-> f[g[c]]]
      [] A = "mod" -> (f + g) % Modulus
      [] A = "sum" -> f + g
      [] A = "min" -> f + g

id_(A) ==
    CASE A = "cat" -> [c \in Letters |-> c]
      [] A = "mod" -> 0
      [] A = "sum" -> 0
      [] A = "min" -> 0

\* The finite carriers of the two algebras the exhaustive specification uses.
RECURSIVE StringsUpTo(_)
StringsUpTo(k) ==
    IF k = 0 THEN {<<>>}
    ELSE LET shorter == StringsUpTo(k - 1)
         IN  shorter \cup {Append(s, c) : s \in {t \in shorter : Len(t) = k - 1}, c \in Letters}

S(A) == IF A = "cat" THEN StringsUpTo(MaxStrLen) ELSE ModVals

F(A) == IF A = "cat" THEN [Letters -> Letters] ELSE ModVals

\* Values the caller stores with the constructor and with set.
X(A) == IF A = "cat" THEN StringsUpTo(1) ELSE ModVals

\* the numbers the searches on the documented example compare with
Thresholds == {3, 8, 17}

\* The predicates the caller hands to max_right / min_left, by name.
\*   "cat": len<=k (length at most k), pre:w (is a prefix of w),
\*          ne:w (differs from w; not monotone), len>=1 (false on e)
\*   "mod": le:k (value at most k; not monotone under + mod 2), ge:1
\*   "sum", "min": le:k and ge:k for the thresholds k of SearchSpec
Preds(A) ==
    IF A = "cat"
    THEN {[kind |-> "lenle", arg |-> k] : k \in 0..MaxStrLen}
         \cup {[kind |-> "prefix", arg |-> w] : w \in {<<"a", "b">>, <<"b">>}}
         \cup {[kind |-> "ne", arg |-> <<"a">>], [kind |-> "lenge", arg |-> 1]}
    ELSE IF A = "mod"
    THEN {[kind |-> "le", arg |-> k] : k \in ModVals} \cup {[kind |-> "ge", arg |-> 1]}
    ELSE {[kind |-> c, arg |-> k] : c \in {"le", "ge"}, k \in Thresholds}

IsPrefix(x, w) == Len(x) <= Len(w) /\ x = SubSeq(w, 1, Len(x))

g(p, x) ==
    CASE p.kind = "lenle"  -> Len(x) <= p.arg
      [] p.kind = "lenge"  -> Len(x) >= p.arg
      [] p.kind = "prefix" -> IsPrefix(x, p.arg)
      [] p.kind = "ne"     -> x # p.arg
      [] p.kind = "le"     -> x <= p.arg
      [] p.kind = "ge"     -> x >= p.arg

----------------------------------------------------------------------------
(* atcoder/_bit.py                                                         *)

\* mutant: the loop runs on while (1 << x) <= n
ceil_pow2_test_le(x, m) == 2^x <= m

\* while (1 << x) < n
ceil_pow2_test(x, m) == 2^x < m

RECURSIVE ceil_pow2_loop(_, _)
ceil_pow2_loop(x, m) == IF ceil_pow2_test(x, m) THEN ceil_pow2_loop(x + 1, m) ELSE x

ceil_pow2(m) == ceil_pow2_loop(0, m)

\* x & -x for x > 0: the lowest set bit of x
RECURSIVE LowBit(_)
LowBit(x) == IF x % 2 = 1 THEN 1 ELSE 2 * LowBit(x \div 2)

\* left >> i  and  ((left >> i) << i) != left
Shr(x, i) == x \div (2^i)

Unaligned(x, i) == Shr(x, i) * (2^i) # x

----------------------------------------------------------------------------
(* atcoder/segtree.py: class SegTree.  An instance is the record           *)
(* [alg, n, log, size, d]; a method returns [t |-> the instance after the  *)
(* call, ret |-> the returned value, ok |-> FALSE iff an assert failed].   *)

Result(t, ret, ok) == [t |-> t, ret |-> ret, ok |-> ok]

Failed(t) == Result(t, "AssertionError", FALSE)

None == "None"

\* self._d[k] = self._op(self._d[2 * k], self._d[2 * k + 1])
SegTree_update(t, k) ==
    [t EXCEPT !.d[k] = op(t.alg, t.d[2 * k], t.d[2 * k + 1])]

\* for i in range(hi, 0, -1): self._update(i)
RECURSIVE SegTree_init_updates(_, _)
SegTree_init_updates(t, i) ==
    IF i < 1 THEN t ELSE SegTree_init_updates(SegTree_update(t, i), i - 1)

\* v is [int |-> m] (a length) or [list |-> <<...>>] (the initial values)
InitialList(A, v) ==
    IF "int" \in DOMAIN v THEN [i \in 1..v.int |-> e(A)] ELSE v.list

SegTree_init(A, v) ==
    LET vl  == InitialList(A, v)
        nn  == Len(vl)
        lg  == ceil_pow2(nn)
        sz  == 2^lg
        t0  == [alg |-> A, n |-> nn, log |-> lg, size |-> sz,
                d |-> [k \in 0..(2 * sz - 1) |->
                         IF sz <= k /\ k < sz + nn THEN vl[k - sz + 1] ELSE e(A)]]
    IN  SegTree_init_updates(t0, sz - 1)

\* mutant: the path of updates stops one node short of the root
RECURSIVE SegTree_update_path_short(_, _, _)
SegTree_update_path_short(t, p, i) ==
    IF i >= t.log THEN t
    ELSE SegTree_update_path_short(SegTree_update(t, Shr(p, i)), p, i + 1)

\* for i in range(lo, self._log + 1): self._update(p >> i)
RECURSIVE SegTree_update_path(_, _, _)
SegTree_update_path(t, p, i) ==
    IF i > t.log THEN t
    ELSE SegTree_update_path(SegTree_update(t, Shr(p, i)), p, i + 1)

SegTree_set(t, p, x) ==
    IF ~(0 <= p /\ p < t.n) THEN Failed(t)
    ELSE LET q == p + t.size
         IN  Result(SegTree_update_path([t EXCEPT !.d[q] = x], q, 1), None, TRUE)

\* mutant: the index is checked against the capacity, not the length
SegTree_get_capacity(t, p) ==
    IF ~(0 <= p /\ p < t.size) THEN Failed(t)
    ELSE Result(t, t.d[p + t.size], TRUE)

SegTree_get(t, p) ==
    IF ~(0 <= p /\ p < t.n) THEN Failed(t)
    ELSE Result(t, t.d[p + t.size], TRUE)

\* mutant: the right accumulator is extended on its right instead of its left
RECURSIVE SegTree_prod_loop_smr_right(_, _, _, _, _)
SegTree_prod_loop_smr_right(t, left, right, sml, smr) ==
    IF left < right
    THEN LET sml1   == IF left % 2 = 1 THEN op(t.alg, sml, t.d[left]) ELSE sml
             left1  == IF left % 2 = 1 THEN left + 1 ELSE left
             right1 == IF right % 2 = 1 THEN right - 1 ELSE right
             smr1   == IF right % 2 = 1 THEN op(t.alg, smr, t.d[right1]) ELSE smr
         IN  SegTree_prod_loop_smr_right(t, left1 \div 2, right1 \div 2, sml1, smr1)
    ELSE op(t.alg, sml, smr)

\* the while loop of prod; returns op(sml, smr)
RECURSIVE SegTree_prod_loop(_, _, _, _, _)
SegTree_prod_loop(t, left, right, sml, smr) ==
    IF left < right
    THEN LET sml1   == IF left % 2 = 1 THEN op(t.alg, sml, t.d[left]) ELSE sml
             left1  == IF left % 2 = 1 THEN left + 1 ELSE left
             right1 == IF right % 2 = 1 THEN right - 1 ELSE right
             smr1   == IF right % 2 = 1 THEN op(t.alg, t.d[right1], smr) ELSE smr
         IN  SegTree_prod_loop(t, left1 \div 2, right1 \div 2, sml1, smr1)
    ELSE op(t.alg, sml, smr)

SegTree_prod(t, left, right) ==
    IF ~(0 <= left /\ left <= right /\ right <= t.n) THEN Failed(t)
    ELSE Result(t, SegTree_prod_loop(t, left + t.size, right + t.size, e(t.alg), e(t.alg)), TRUE)

SegTree_all_prod(t) == Result(t, t.d[1], TRUE)

\* while left % 2 == 0: left >>= 1
RECURSIVE StripZeros(_)
StripZeros(left) == IF left % 2 = 0 THEN StripZeros(left \div 2) ELSE left

\* the inner descent of max_right: while left < size: ...; return left - size
RECURSIVE SegTree_max_right_descend(_, _, _, _)
SegTree_max_right_descend(t, f, left, sm) ==
    IF left < t.size
    THEN LET l2 == 2 * left
         IN  IF g(f, op(t.alg, sm, t.d[l2]))
             THEN SegTree_max_right_descend(t, f, l2 + 1, op(t.alg, sm, t.d[l2]))
             ELSE SegTree_max_right_descend(t, f, l2, sm)
    ELSE left - t.size

\* the outer loop of max_right: while first or (left & -left) != left
RECURSIVE SegTree_max_right_loop(_, _, _, _, _)
SegTree_max_right_loop(t, f, left, sm, first) ==
    IF first \/ LowBit(left) # left
    THEN LET l1 == StripZeros(left)
         IN  IF ~g(f, op(t.alg, sm, t.d[l1]))
             THEN SegTree_max_right_descend(t, f, l1, sm)
             ELSE SegTree_max_right_loop(t, f, l1 + 1, op(t.alg, sm, t.d[l1]), FALSE)
    ELSE t.n

SegTree_max_right(t, left, f) ==
    IF ~(0 <= left /\ left <= t.n) THEN Failed(t)
    ELSE IF ~g(f, e(t.alg)) THEN Failed(t)
    ELSE IF left = t.n THEN Result(t, t.n, TRUE)
    ELSE Result(t, SegTree_max_right_loop(t, f, left + t.size, e(t.alg), TRUE), TRUE)

\* while right > 1 and right % 2: right >>= 1
RECURSIVE StripOnes(_)
StripOnes(right) ==
    IF right > 1 /\ right % 2 = 1 THEN StripOnes(right \div 2) ELSE right

\* the inner descent of min_left: while right < size: ...; return right + 1 - size
RECURSIVE SegTree_min_left_descend(_, _, _, _)
SegTree_min_left_descend(t, f, right, sm) ==
    IF right < t.size
    THEN LET r2 == 2 * right + 1
         IN  IF g(f, op(t.alg, t.d[r2], sm))
             THEN SegTree_min_left_descend(t, f, r2 - 1, op(t.alg, t.d[r2], sm))
             ELSE SegTree_min_left_descend(t, f, r2, sm)
    ELSE right + 1 - t.size

\* the outer loop of min_left: while first or (right & -right) != right
RECURSIVE SegTree_min_left_loop(_, _, _, _, _)
SegTree_min_left_loop(t, f, right, sm, first) ==
    IF first \/ LowBit(right) # right
    THEN LET r1 == StripOnes(right - 1)
         IN  IF ~g(f, op(t.alg, t.d[r1], sm))
             THEN SegTree_min_left_descend(t, f, r1, sm)
             ELSE SegTree_min_left_loop(t, f, r1, op(t.alg, t.d[r1], sm), FALSE)
    ELSE 0

SegTree_min_left(t, right, f) ==
    IF ~(0 <= right /\ right <= t.n) THEN Failed(t)
    ELSE IF ~g(f, e(t.alg)) THEN Failed(t)
    ELSE IF right = 0 THEN Result(t, 0, TRUE)
    ELSE Result(t, SegTree_min_left_loop(t, f, right + t.size, e(t.alg), TRUE), TRUE)

\* self._d[self._size:self._size + self._n]
SegTree_values(t) == [i \in 1..t.n |-> t.d[t.size + i - 1]]

----------------------------------------------------------------------------
(* atcoder/lazysegtree.py: class LazySegTree.  An instance is the record   *)
(* [alg, n, log, size, d, lz].                                             *)

LazySegTree_update(t, k) ==
    [t EXCEPT !.d[k] = op(t.alg, t.d[2 * k], t.d[2 * k + 1])]

\* mutant: the new mapping is composed on the wrong side of the pending one
LazySegTree_all_apply_reversed(t, k, f) ==
    LET t1 == [t EXCEPT !.d[k] = mapping(t.alg, f, t.d[k])]
    IN  IF k < t.size
        THEN [t1 EXCEPT !.lz[k] = composition(t.alg, t.lz[k], f)]
        ELSE t1

\* mutant: the mapping is applied to the node but not recorded for its children
LazySegTree_all_apply_unrecorded(t, k, f) ==
    [t EXCEPT !.d[k] = mapping(t.alg, f, t.d[k])]

\* mutant: the mapping is applied to the whole subtree at once, nothing is
\* left pending
RECURSIVE LazySegTree_all_apply_eager(_, _, _)
LazySegTree_all_apply_eager(t, k, f) ==
    LET t1 == [t EXCEPT !.d[k] = mapping(t.alg, f, t.d[k])]
    IN  IF k < t.size
        THEN LazySegTree_all_apply_eager(LazySegTree_all_apply_eager(t1, 2 * k, f),
                                         2 * k + 1, f)
        ELSE t1

\* self._d[k] = mapping(f, self._d[k]); if k < size: self._lz[k] = composition(f, self._lz[k])
LazySegTree_all_apply(t, k, f) ==
    LET t1 == [t EXCEPT !.d[k] = mapping(t.alg, f, t.d[k])]
    IN  IF k < t.size
        THEN [t1 EXCEPT !.lz[k] = composition(t.alg, f, t.lz[k])]
        ELSE t1

\* mutant: the pushed mapping stays recorded on the node
LazySegTree_push_unreset(t, k) ==
    LET t1 == LazySegTree_all_apply(t, 2 * k, t.lz[k])
    IN  LazySegTree_all_apply(t1, 2 * k + 1, t1.lz[k])

LazySegTree_push(t, k) ==
    LET t1 == LazySegTree_all_apply(t, 2 * k, t.lz[k])
        t2 == LazySegTree_all_apply(t1, 2 * k + 1, t1.lz[k])
    IN  [t2 EXCEPT !.lz[k] = id_(t.alg)]

RECURSIVE LazySegTree_init_updates(_, _)
LazySegTree_init_updates(t, i) ==
    IF i < 1 THEN t ELSE LazySegTree_init_updates(LazySegTree_update(t, i), i - 1)

LazySegTree_init(A, v) ==
    LET vl  == InitialList(A, v)
        nn  == Len(vl)
        lg  == ceil_pow2(nn)
        sz  == 2^lg
        t0  == [alg |-> A, n |-> nn, log |-> lg, size |-> sz,
                d |-> [k \in 0..(2 * sz - 1) |->
                         IF sz <= k /\ k < sz + nn THEN vl[k - sz + 1] ELSE e(A)],
                lz |-> [k \in 0..(sz - 1) |-> id_(A)]]
    IN  LazySegTree_init_updates(t0, sz - 1)

\* for i in range(self._log, 0, -1): self._push(p >> i)      (called with i = log)
RECURSIVE LazySegTree_push_path(_, _, _)
LazySegTree_push_path(t, p, i) ==
    IF i < 1 THEN t
    ELSE LazySegTree_push_path(LazySegTree_push(t, Shr(p, i)), p, i - 1)

\* for i in range(1, self._log + 1): self._update(p >> i)    (called with i = 1)
RECURSIVE LazySegTree_update_path(_, _, _)
LazySegTree_update_path(t, p, i) ==
    IF i > t.log THEN t
    ELSE LazySegTree_update_path(LazySegTree_update(t, Shr(p, i)), p, i + 1)

\* mutant: set writes the leaf without pushing the ancestors first
LazySegTree_set_unpushed(t, p, x) ==
    IF ~(0 <= p /\ p < t.n) THEN Failed(t)
    ELSE LET q  == p + t.size
             t2 == [t EXCEPT !.d[q] = x]
         IN  Result(LazySegTree_update_path(t2, q, 1), None, TRUE)

LazySegTree_set(t, p, x) ==
    IF ~(0 <= p /\ p < t.n) THEN Failed(t)
    ELSE LET q  == p + t.size
             t1 == LazySegTree_push_path(t, q, t.log)
             t2 == [t1 EXCEPT !.d[q] = x]
         IN  Result(LazySegTree_update_path(t2, q, 1), None, TRUE)

\* mutant: get reads the leaf without pushing its ancestors
LazySegTree_get_unpushed(t, p) ==
    IF ~(0 <= p /\ p < t.n) THEN Failed(t)
    ELSE Result(t, t.d[p + t.size], TRUE)

\* mutant: get works the pending mappings out on the side and stores nothing
LazySegTree_get_peeking(t, p) ==
    IF ~(0 <= p /\ p < t.n) THEN Failed(t)
    ELSE LET q  == p + t.size
             t1 == LazySegTree_push_path(t, q, t.log)
         IN  Result(t, t1.d[q], TRUE)

LazySegTree_get(t, p) ==
    IF ~(0 <= p /\ p < t.n) THEN Failed(t)
    ELSE LET q  == p + t.size
             t1 == LazySegTree_push_path(t, q, t.log)
         IN  Result(t1, t1.d[q], TRUE)

\* mutant: the pending mappings above the two bounds are not pushed
LazySegTree_push_bounds_skipped(t, left, right, i) == t

\* for i in range(self._log, 0, -1):
\*     if ((left >> i) << i) != left: self._push(left >> i)
\*     if ((right >> i) << i) != right: self._push((right - 1) >> i)
RECURSIVE LazySegTree_push_bounds(_, _, _, _)
LazySegTree_push_bounds(t, left, right, i) ==
    IF i < 1 THEN t
    ELSE LET t1 == IF Unaligned(left, i) THEN LazySegTree_push(t, Shr(left, i)) ELSE t
             t2 == IF Unaligned(right, i) THEN LazySegTree_push(t1, Shr(right - 1, i)) ELSE t1
         IN  LazySegTree_push_bounds(t2, left, right, i - 1)

RECURSIVE LazySegTree_prod_loop(_, _, _, _, _)
LazySegTree_prod_loop(t, left, right, sml, smr) ==
    IF left < right
    THEN LET sml1   == IF left % 2 = 1 THEN op(t.alg, sml, t.d[left]) ELSE sml
             left1  == IF left % 2 = 1 THEN left + 1 ELSE left
             right1 == IF right % 2 = 1 THEN right - 1 ELSE right
             smr1   == IF right % 2 = 1 THEN op(t.alg, t.d[right1], smr) ELSE smr
         IN  LazySegTree_prod_loop(t, left1 \div 2, right1 \div 2, sml1, smr1)
    ELSE op(t.alg, sml, smr)

\* mutant: the right bound is checked against the capacity, not the length
LazySegTree_prod_capacity(t, left, right) ==
    IF ~(0 <= left /\ left <= right /\ right <= t.size) THEN Failed(t)
    ELSE IF left = right THEN Result(t, e(t.alg), TRUE)
    ELSE LET l0 == left + t.size
             r0 == right + t.size
             t1 == LazySegTree_push_bounds(t, l0, r0, t.log)
         IN  Result(t1, LazySegTree_prod_loop(t1, l0, r0, e(t.alg), e(t.alg)), TRUE)

LazySegTree_prod(t, left, right) ==
    IF ~(0 <= left /\ left <= right /\ right <= t.n) THEN Failed(t)
    ELSE IF left = right THEN Result(t, e(t.alg), TRUE)
    ELSE LET l0 == left + t.size
             r0 == right + t.size
             t1 == LazySegTree_push_bounds(t, l0, r0, t.log)
         IN  Result(t1, LazySegTree_prod_loop(t1, l0, r0, e(t.alg), e(t.alg)), TRUE)

LazySegTree_all_prod(t) == Result(t, t.d[1], TRUE)

\* mutant: the right bound is not decremented before its node is mapped
RECURSIVE LazySegTree_apply_loop_right_late(_, _, _, _)
LazySegTree_apply_loop_right_late(t, left, right, f) ==
    IF left < right
    THEN LET t1     == IF left % 2 = 1 THEN LazySegTree_all_apply(t, left, f) ELSE t
             left1  == IF left % 2 = 1 THEN left + 1 ELSE left
             right1 == IF right % 2 = 1 THEN right - 1 ELSE right
             t2     == IF right % 2 = 1 THEN LazySegTree_all_apply(t1, right, f) ELSE t1
         IN  LazySegTree_apply_loop_right_late(t2, left1 \div 2, right1 \div 2, f)
    ELSE t

\* the while loop of the range form of apply
RECURSIVE LazySegTree_apply_loop(_, _, _, _)
LazySegTree_apply_loop(t, left, right, f) ==
    IF left < right
    THEN LET t1     == IF left % 2 = 1 THEN LazySegTree_all_apply(t, left, f) ELSE t
             left1  == IF left % 2 = 1 THEN left + 1 ELSE left
             right1 == IF right % 2 = 1 THEN right - 1 ELSE right
             t2     == IF right % 2 = 1 THEN LazySegTree_all_apply(t1, right1, f) ELSE t1
         IN  LazySegTree_apply_loop(t2, left1 \div 2, right1 \div 2, f)
    ELSE t

\* mutant: the ancestors of the two bounds are not recomputed
LazySegTree_update_bounds_skipped(t, left, right, i) == t

\* for i in range(1, self._log + 1):
\*     if ((left >> i) << i) != left: self._update(left >> i)
\*     if ((right >> i) << i) != right: self._update((right - 1) >> i)
RECURSIVE LazySegTree_update_bounds(_, _, _, _)
LazySegTree_update_bounds(t, left, right, i) ==
    IF i > t.log THEN t
    ELSE LET t1 == IF Unaligned(left, i) THEN LazySegTree_update(t, Shr(left, i)) ELSE t
             t2 == IF Unaligned(right, i) THEN LazySegTree_update(t1, Shr(right - 1, i)) ELSE t1
         IN  LazySegTree_update_bounds(t2, left, right, i + 1)

\* mutant: the range form takes the right bound inclusive (within the capacity)
LazySegTree_apply_inclusive(t, left, right, f) ==
    IF Len(f) = 0 THEN Failed(t)
    ELSE IF Len(right) = 0
    THEN IF ~(0 <= left /\ left < t.n) THEN Failed(t)
         ELSE LET q  == left + t.size
                  t1 == LazySegTree_push_path(t, q, t.log)
                  t2 == [t1 EXCEPT !.d[q] = mapping(t.alg, f[1], t1.d[q])]
              IN  Result(LazySegTree_update_path(t2, q, 1), None, TRUE)
    ELSE IF ~(0 <= left /\ left <= right[1] /\ right[1] <= t.n) THEN Failed(t)
         ELSE IF left = right[1] THEN Result(t, None, TRUE)
         ELSE LET l0 == left + t.size
                  r0 == Min2(right[1] + 1, t.size) + t.size
                  t1 == LazySegTree_push_bounds(t, l0, r0, t.log)
                  t2 == LazySegTree_apply_loop(t1, l0, r0, f[1])
              IN  Result(LazySegTree_update_bounds(t2, l0, r0, 1), None, TRUE)

\* assert f is not None; right is <<>> for right=None (the point form) and
\* <<r>> for the range form, f is <<>> for f=None and <<v>> for the mapping v
LazySegTree_apply(t, left, right, f) ==
    IF Len(f) = 0 THEN Failed(t)
    ELSE IF Len(right) = 0
    THEN IF ~(0 <= left /\ left < t.n) THEN Failed(t)
         ELSE LET q  == left + t.size
                  t1 == LazySegTree_push_path(t, q, t.log)
                  t2 == [t1 EXCEPT !.d[q] = mapping(t.alg, f[1], t1.d[q])]
              IN  Result(LazySegTree_update_path(t2, q, 1), None, TRUE)
    ELSE IF ~(0 <= left /\ left <= right[1] /\ right[1] <= t.n) THEN Failed(t)
         ELSE IF left = right[1] THEN Result(t, None, TRUE)
         ELSE LET l0 == left + t.size
                  r0 == right[1] + t.size
                  t1 == LazySegTree_push_bounds(t, l0, r0, t.log)
                  t2 == LazySegTree_apply_loop(t1, l0, r0, f[1])
              IN  Result(LazySegTree_update_bounds(t2, l0, r0, 1), None, TRUE)

\* mutant: the descent reads the children without pushing the node first
RECURSIVE LazySegTree_max_right_descend_stale(_, _, _, _)
LazySegTree_max_right_descend_stale(t, gg, left, sm) ==
    IF left < t.size
    THEN LET l2 == 2 * left
         IN  IF g(gg, op(t.alg, sm, t.d[l2]))
             THEN LazySegTree_max_right_descend_stale(t, gg, l2 + 1, op(t.alg, sm, t.d[l2]))
             ELSE LazySegTree_max_right_descend_stale(t, gg, l2, sm)
    ELSE Result(t, left - t.size, TRUE)

\* the inner descent of max_right; returns [t, ret]
RECURSIVE LazySegTree_max_right_descend(_, _, _, _)
LazySegTree_max_right_descend(t, gg, left, sm) ==
    IF left < t.size
    THEN LET t1 == LazySegTree_push(t, left)
             l2 == 2 * left
         IN  IF g(gg, op(t.alg, sm, t1.d[l2]))
             THEN LazySegTree_max_right_descend(t1, gg, l2 + 1, op(t.alg, sm, t1.d[l2]))
             ELSE LazySegTree_max_right_descend(t1, gg, l2, sm)
    ELSE Result(t, left - t.size, TRUE)

RECURSIVE LazySegTree_max_right_loop(_, _, _, _, _)
LazySegTree_max_right_loop(t, gg, left, sm, first) ==
    IF first \/ LowBit(left) # left
    THEN LET l1 == StripZeros(left)
         IN  IF ~g(gg, op(t.alg, sm, t.d[l1]))
             THEN LazySegTree_max_right_descend(t, gg, l1, sm)
             ELSE LazySegTree_max_right_loop(t, gg, l1 + 1, op(t.alg, sm, t.d[l1]), FALSE)
    ELSE Result(t, t.n, TRUE)

\* mutant: the scan starts without pushing the ancestors of the left bound
LazySegTree_max_right_unpushed(t, left, gg) ==
    IF ~(0 <= left /\ left <= t.n) THEN Failed(t)
    ELSE IF ~g(gg, e(t.alg)) THEN Failed(t)
    ELSE IF left = t.n THEN Result(t, t.n, TRUE)
    ELSE LazySegTree_max_right_loop(t, gg, left + t.size, e(t.alg), TRUE)

LazySegTree_max_right(t, left, gg) ==
    IF ~(0 <= left /\ left <= t.n) THEN Failed(t)
    ELSE IF ~g(gg, e(t.alg)) THEN Failed(t)
    ELSE IF left = t.n THEN Result(t, t.n, TRUE)
    ELSE LET l0 == left + t.size
             t1 == LazySegTree_push_path(t, l0, t.log)
         IN  LazySegTree_max_right_loop(t1, gg, l0, e(t.alg), TRUE)

\* mutant: the descent reads the children without pushing the node first
RECURSIVE LazySegTree_min_left_descend_unpushed(_, _, _, _)
LazySegTree_min_left_descend_unpushed(t, gg, right, sm) ==
    IF right < t.size
    THEN LET r2 == 2 * right + 1
         IN  IF g(gg, op(t.alg, t.d[r2], sm))
             THEN LazySegTree_min_left_descend_unpushed(t, gg, r2 - 1, op(t.alg, t.d[r2], sm))
             ELSE LazySegTree_min_left_descend_unpushed(t, gg, r2, sm)
    ELSE Result(t, right + 1 - t.size, TRUE)

\* the inner descent of min_left; returns [t, ret]
RECURSIVE LazySegTree_min_left_descend(_, _, _, _)
LazySegTree_min_left_descend(t, gg, right, sm) ==
    IF right < t.size
    THEN LET t1 == LazySegTree_push(t, right)
             r2 == 2 * right + 1
         IN  IF g(gg, op(t.alg, t1.d[r2], sm))
             THEN LazySegTree_min_left_descend(t1, gg, r2 - 1, op(t.alg, t1.d[r2], sm))
             ELSE LazySegTree_min_left_descend(t1, gg, r2, sm)
    ELSE Result(t, right + 1 - t.size, TRUE)

RECURSIVE LazySegTree_min_left_loop(_, _, _, _, _)
LazySegTree_min_left_loop(t, gg, right, sm, first) ==
    IF first \/ LowBit(right) # right
    THEN LET r1 == StripOnes(right - 1)
         IN  IF ~g(gg, op(t.alg, t.d[r1], sm))
             THEN LazySegTree_min_left_descend(t, gg, r1, sm)
             ELSE LazySegTree_min_left_loop(t, gg, r1, op(t.alg, t.d[r1], sm), FALSE)
    ELSE Result(t, 0, TRUE)

\* mutant: right = 0 returns 0 before g(e) is asserted
LazySegTree_min_left_return_first(t, right, gg) ==
    IF ~(0 <= right /\ right <= t.n) THEN Failed(t)
    ELSE IF right = 0 THEN Result(t, 0, TRUE)
    ELSE IF ~g(gg, e(t.alg)) THEN Failed(t)
    ELSE LET r0 == right + t.size
             t1 == LazySegTree_push_path(t, r0 - 1, t.log)
         IN  LazySegTree_min_left_loop(t1, gg, r0, e(t.alg), TRUE)

LazySegTree_min_left(t, right, gg) ==
    IF ~(0 <= right /\ right <= t.n) THEN Failed(t)
    ELSE IF ~g(gg, e(t.alg)) THEN Failed(t)
    ELSE IF right = 0 THEN Result(t, 0, TRUE)
    ELSE LET r0 == right + t.size
             t1 == LazySegTree_push_path(t, r0 - 1, t.log)
         IN  LazySegTree_min_left_loop(t1, gg, r0, e(t.alg), TRUE)

\* [self.get(i) for i in range(self._n)]; each get pushes, so the instance changes
RECURSIVE LazySegTree_values_from(_, _, _)
LazySegTree_values_from(t, i, acc) ==
    IF i >= t.n THEN Result(t, acc, TRUE)
    ELSE LET r == LazySegTree_get(t, i)
         IN  LazySegTree_values_from(r.t, i + 1, Append(acc, r.ret))

LazySegTree_values(t) == LazySegTree_values_from(t, 0, <<>>)

----------------------------------------------------------------------------
(* The state machine: one instance, one action per public method.          *)

Self == [alg |-> alg, n |-> n, log |-> log, size |-> size, d |-> d, lz |-> lz]

\* no point call is being followed
PointIdle == [pc |-> "idle"]

\* the instance fields after a call that returned the instance t
Becomes(t) ==
    /\ d' = t.d
    /\ lz' = t.lz
    /\ UNCHANGED <<cls, alg, n, log, size, point>>
    /\ UNCHANGED otherVars

\* no call of the other modules is running
OthersIdle == bit = None /\ dsu = None /\ fenwick = None /\ str = None /\ math = None

\* what a call does to the logical array: set(p, x) stores x at p, apply
\* maps f over the targeted positions; a call whose assert failed does nothing
ArrSet(r, p, x) == IF r.ok THEN [arr EXCEPT ![p + 1] = x] ELSE arr

ArrApply(r, l, h, f) ==
    IF r.ok
    THEN [i \in 1..Len(arr) |->
             IF l <= i - 1 /\ i - 1 < h THEN mapping(alg, f[1], arr[i]) ELSE arr[i]]
    ELSE arr

Algs == {"cat", "mod"}

RECURSIVE SeqsUpTo(_, _)
SeqsUpTo(V, k) ==
    IF k = 0 THEN {<<>>}
    ELSE LET shorter == SeqsUpTo(V, k - 1)
         IN  shorter \cup {Append(s, x) : s \in {t \in shorter : Len(t) = k - 1}, x \in V}

\* what the caller passes as v: a length or a list of initial values
CtorArgs(A) ==
    {[int |-> m] : m \in 0..MaxN} \cup {[list |-> v] : v \in SeqsUpTo(X(A), MaxN)}

Construct(c, A, v) ==
    /\ cls = c
    /\ alg = A
    /\ LET t == IF c = "SegTree"
                THEN SegTree_init(A, v) @@ [lz |-> <<>>]
                ELSE LazySegTree_init(A, v)
       IN  /\ n = t.n
           /\ log = t.log
           /\ size = t.size
           /\ d = t.d
           /\ lz = t.lz
           /\ arr = InitialList(A, v)

Init ==
    /\ hist = <<>>
    /\ point = PointIdle
    /\ OthersIdle
    /\ \E c \in {"SegTree", "LazySegTree"}, A \in Algs :
          \E v \in CtorArgs(A) : Construct(c, A, v)

\* what the caller passes as f to apply: nothing (f=None) or a mapping
MapArgs(A) == {<<>>} \cup {<<v>> : v \in F(A)}

\* argument range of the calls; p = n fails the assert of the point methods,
\* l > r the assert of the range methods
Pos == 0..n

Set ==
    \E p \in Pos, x \in X(alg) :
        LET r == IF cls = "SegTree" THEN SegTree_set(Self, p, x)
                                    ELSE LazySegTree_set(Self, p, x)
        IN  Becomes(r.t) /\ arr' = ArrSet(r, p, x) /\ UNCHANGED hist

Get ==
    \E p \in Pos :
        LET r == IF cls = "SegTree" THEN SegTree_get(Self, p)
                                    ELSE LazySegTree_get(Self, p)
        IN  Becomes(r.t) /\ UNCHANGED <<arr, hist>>

Prod ==
    \E l \in Pos, r \in Pos :
        LET res == IF cls = "SegTree" THEN SegTree_prod(Self, l, r)
                                      ELSE LazySegTree_prod(Self, l, r)
        IN  Becomes(res.t) /\ UNCHANGED <<arr, hist>>

AllProd ==
    LET r == IF cls = "SegTree" THEN SegTree_all_prod(Self)
                                ELSE LazySegTree_all_prod(Self)
    IN  Becomes(r.t) /\ UNCHANGED <<arr, hist>>

ApplyPoint ==
    /\ cls = "LazySegTree"
    /\ \E p \in Pos, f \in MapArgs(alg) :
          LET r == LazySegTree_apply(Self, p, <<>>, f)
          IN  Becomes(r.t) /\ arr' = ArrApply(r, p, p + 1, f) /\ UNCHANGED hist

ApplyRange ==
    /\ cls = "LazySegTree"
    /\ \E l \in Pos, r \in Pos, f \in MapArgs(alg) :
          LET res == LazySegTree_apply(Self, l, <<r>>, f)
          IN  Becomes(res.t) /\ arr' = ArrApply(res, l, r, f) /\ UNCHANGED hist

MaxRight ==
    \E l \in Pos, p \in Preds(alg) :
        LET r == IF cls = "SegTree" THEN SegTree_max_right(Self, l, p)
                                    ELSE LazySegTree_max_right(Self, l, p)
        IN  Becomes(r.t) /\ UNCHANGED <<arr, hist>>

MinLeft ==
    \E r \in Pos, p \in Preds(alg) :
        LET res == IF cls = "SegTree" THEN SegTree_min_left(Self, r, p)
                                      ELSE LazySegTree_min_left(Self, r, p)
        IN  Becomes(res.t) /\ UNCHANGED <<arr, hist>>

Values ==
    IF cls = "SegTree"
    THEN UNCHANGED vars
    ELSE Becomes(LazySegTree_values(Self).t) /\ UNCHANGED <<arr, hist>>

Next == Set \/ Get \/ Prod \/ AllProd \/ ApplyPoint \/ ApplyRange
            \/ MaxRight \/ MinLeft \/ Values

Spec == Init /\ [][Next]_vars

\* the lazy tree alone: the same calls on every LazySegTree a caller constructs
LazyInit == Init /\ cls = "LazySegTree"

LazySpec == LazyInit /\ [][Next]_vars

----------------------------------------------------------------------------
(* The scripted caller: the documented example array [5, 3, 7, 9, 6] under *)
(* the sum monoid (mapping = add) and under the min monoid (mapping =      *)
(* add), followed by at most MaxCalls mutating calls, which are logged.    *)

Example == <<5, 3, 7, 9, 6>>

ScenarioInit ==
    /\ hist = <<>>
    /\ point = PointIdle
    /\ OthersIdle
    /\ \E c \in {"SegTree", "LazySegTree"}, A \in {"sum", "min"} :
          Construct(c, A, [list |-> Example])

ScnSet ==
    /\ Len(hist) < MaxCalls
    /\ \E p \in 0..(n - 1), x \in {1} :
          LET r == IF cls = "SegTree" THEN SegTree_set(Self, p, x)
                                      ELSE LazySegTree_set(Self, p, x)
          IN  /\ Becomes(r.t)
              /\ arr' = ArrSet(r, p, x)
              /\ hist' = Append(hist, <<"set", p, x>>)

ScnApply ==
    /\ Len(hist) < MaxCalls
    /\ cls = "LazySegTree"
    /\ \E l \in 0..n, r \in 0..n, f \in {1} :
          /\ l < r
          /\ LET res == LazySegTree_apply(Self, l, <<r>>, <<f>>)
             IN  /\ Becomes(res.t)
                 /\ arr' = ArrApply(res, l, r, <<f>>)
                 /\ hist' = Append(hist, <<"apply", l, r, f>>)

ScenarioNext == ScnSet \/ ScnApply

ScenarioSpec == ScenarioInit /\ [][ScenarioNext]_vars

----------------------------------------------------------------------------
(* atcoder/_bit.py: one call of _ceil_pow2, one action per step of its     *)
(* loop.  bit holds the call's locals and its position.                    *)

\* no tree has been constructed
TreeIdle ==
    /\ cls = None /\ alg = None /\ n = None /\ log = None /\ size = None
    /\ d = None /\ lz = None /\ arr = None /\ hist = None /\ point = None

\* def _ceil_pow2(n): x = 0
CeilInit ==
    /\ TreeIdle
    /\ dsu = None /\ fenwick = None /\ str = None /\ math = None
    /\ \E m \in (0 - MaxArg)..MaxArg : bit = [n |-> m, x |-> 0, pc |-> "while"]

\* while (1 << x) < n: x += 1
CeilStep ==
    /\ bit.pc = "while"
    /\ ceil_pow2_test(bit.x, bit.n)
    /\ bit' = [bit EXCEPT !.x = bit.x + 1]
    /\ UNCHANGED <<treeVars, dsu, fenwick, str, math>>

\* the test of the loop fails: return x
CeilReturn ==
    /\ bit.pc = "while"
    /\ ~ceil_pow2_test(bit.x, bit.n)
    /\ bit' = [bit EXCEPT !.pc = "return"]
    /\ UNCHANGED <<treeVars, dsu, fenwick, str, math>>

CeilNext == CeilStep \/ CeilReturn

CeilSpec == CeilInit /\ [][CeilNext]_vars

\* a running call is not suspended for ever: the interpreter keeps executing
\* the single thread the call runs in
CeilFairSpec == CeilSpec /\ WF_vars(CeilNext)

----------------------------------------------------------------------------
(* atcoder/dsu.py.  An instance is [n, parent_or_size]; parent_or_size is  *)
(* indexed from 0 as in the code.                                          *)

\* self._n = n; self.parent_or_size = [-1] * n
DSU_init(m) == [n |-> m, parent_or_size |-> [i \in 0..(m - 1) |-> 0 - 1]]

\* mutant: the halving step stores the parent of the grandparent
RECURSIVE DSU_leader_loop_far(_, _, _)
DSU_leader_loop_far(t, a, parent) ==
    IF parent >= 0
    THEN IF t.parent_or_size[parent] < 0
         THEN Result(t, parent, TRUE)
         ELSE LET gp == t.parent_or_size[parent]
              IN  DSU_leader_loop_far(
                      [t EXCEPT !.parent_or_size[a] = t.parent_or_size[gp]],
                      gp, t.parent_or_size[gp])
    ELSE Result(t, a, TRUE)

\* while parent >= 0: return parent if it is a root, else
\* parent_or_size[a], a, parent = p[parent], p[parent], p[p[parent]]
\* (the right-hand side is evaluated before any of the three is assigned)
RECURSIVE DSU_leader_loop(_, _, _)
DSU_leader_loop(t, a, parent) ==
    IF parent >= 0
    THEN IF t.parent_or_size[parent] < 0
         THEN Result(t, parent, TRUE)
         ELSE LET gp == t.parent_or_size[parent]
              IN  DSU_leader_loop(
                      [t EXCEPT !.parent_or_size[a] = gp],
                      gp, t.parent_or_size[gp])
    ELSE Result(t, a, TRUE)

DSU_leader(t, a) ==
    IF ~(0 <= a /\ a < t.n)
    THEN Failed(t)
    ELSE DSU_leader_loop(t, a, t.parent_or_size[a])

\* mutant: the size of the absorbed component is not added
DSU_merge_link_unsized(P, x, y) == [P EXCEPT ![y] = x]

\* self.parent_or_size[x] += self.parent_or_size[y]; self.parent_or_size[y] = x
DSU_merge_link(P, x, y) == [P EXCEPT ![x] = P[x] + P[y], ![y] = x]

\* mutant: the leaders are swapped on a size tie as well
DSU_merge_swap_tie(P, x, y) == (0 - P[x]) <= (0 - P[y])

\* if -self.parent_or_size[x] < -self.parent_or_size[y]: x, y = y, x
DSU_merge_swap(P, x, y) == (0 - P[x]) < (0 - P[y])

DSU_merge(t, a, b) ==
    IF ~(0 <= a /\ a < t.n) \/ ~(0 <= b /\ b < t.n)
    THEN Failed(t)
    ELSE LET rx == DSU_leader(t, a)
             ry == DSU_leader(rx.t, b)
             P == ry.t.parent_or_size
             swap == DSU_merge_swap(P, rx.ret, ry.ret)
             x == IF swap THEN ry.ret ELSE rx.ret
             y == IF swap THEN rx.ret ELSE ry.ret
         IN  IF rx.ret = ry.ret
             THEN Result(ry.t, rx.ret, TRUE)
             ELSE Result([ry.t EXCEPT !.parent_or_size = DSU_merge_link(P, x, y)],
                         x, TRUE)

DSU_same(t, a, b) ==
    IF ~(0 <= a /\ a < t.n) \/ ~(0 <= b /\ b < t.n)
    THEN Failed(t)
    ELSE LET ra == DSU_leader(t, a)
             rb == DSU_leader(ra.t, b)
         IN  Result(rb.t, ra.ret = rb.ret, TRUE)

DSU_size(t, a) ==
    IF ~(0 <= a /\ a < t.n)
    THEN Failed(t)
    ELSE LET r == DSU_leader(t, a)
         IN  Result(r.t, 0 - r.t.parent_or_size[r.ret], TRUE)

\* leader_buf = [self.leader(i) for i in range(self._n)]; buf[i + 1] is
\* leader_buf[i]
RECURSIVE DSU_groups_leaders(_, _, _)
DSU_groups_leaders(t, i, buf) ==
    IF i >= t.n
    THEN Result(t, buf, TRUE)
    ELSE LET r == DSU_leader(t, i)
         IN  DSU_groups_leaders(r.t, i + 1, Append(buf, r.ret))

\* result[k] after the loop "for i in range(n): result[leader_buf[i]].append(i)"
RECURSIVE DSU_groups_bucket(_, _, _)
DSU_groups_bucket(buf, k, i) ==
    IF i >= Len(buf)
    THEN <<>>
    ELSE (IF buf[i + 1] = k THEN <<i>> ELSE <<>>) \o DSU_groups_bucket(buf, k, i + 1)

\* list(filter(lambda r: r, result)) from result[k] on
RECURSIVE DSU_groups_filter(_, _)
DSU_groups_filter(buf, k) ==
    IF k >= Len(buf)
    THEN <<>>
    ELSE LET r == DSU_groups_bucket(buf, k, 0)
         IN  (IF r # <<>> THEN <<r>> ELSE <<>>) \o DSU_groups_filter(buf, k + 1)

DSU_groups(t) ==
    LET r == DSU_groups_leaders(t, 0, <<>>)
    IN  Result(r.t, DSU_groups_filter(r.ret, 0), TRUE)

\* the arguments the caller tries: every vertex and one on either side
DsuArgs == (0 - 1)..dsu.self.n

\* the undirected edge (a, b), a loop when a = b
Edge(a, b) == {a, b}

DsuInit ==
    /\ TreeIdle
    /\ bit = None /\ fenwick = None /\ str = None /\ math = None
    /\ \E m \in 0..MaxDsuN : dsu = [self |-> DSU_init(m), edges |-> {}]

DsuBecomes(t, edges) ==
    /\ dsu' = [self |-> t, edges |-> edges]
    /\ UNCHANGED <<treeVars, bit, fenwick, str, math>>

DsuMerge ==
    \E a \in DsuArgs, b \in DsuArgs :
        LET r == DSU_merge(dsu.self, a, b)
            edges == IF r.ok THEN dsu.edges \cup {Edge(a, b)} ELSE dsu.edges
        IN  /\ Cardinality(edges) <= MaxMerges
            /\ DsuBecomes(r.t, edges)

DsuSame ==
    \E a \in DsuArgs, b \in DsuArgs :
        DsuBecomes(DSU_same(dsu.self, a, b).t, dsu.edges)

DsuLeader ==
    \E a \in DsuArgs : DsuBecomes(DSU_leader(dsu.self, a).t, dsu.edges)

DsuSize ==
    \E a \in DsuArgs : DsuBecomes(DSU_size(dsu.self, a).t, dsu.edges)

DsuGroups == DsuBecomes(DSU_groups(dsu.self).t, dsu.edges)

DsuNext == DsuMerge \/ DsuSame \/ DsuLeader \/ DsuSize \/ DsuGroups

DsuSpec == DsuInit /\ [][DsuNext]_vars

----------------------------------------------------------------------------
(* atcoder/fenwicktree.py.  An instance is [n, data]; data is indexed from *)
(* 0 as in the code.  Python integers do not overflow.                     *)

\* self._n = n; self.data = [0] * n
FenwickTree_init(m) == [n |-> m, data |-> [i \in 0..(m - 1) |-> 0]]

\* mutant: the loop of add stops one position early
RECURSIVE FenwickTree_add_loop_short(_, _, _)
FenwickTree_add_loop_short(t, p, x) ==
    IF p < t.n
    THEN FenwickTree_add_loop_short([t EXCEPT !.data[p - 1] = @ + x], p + LowBit(p), x)
    ELSE t

\* while p <= self._n: self.data[p - 1] += x; p += p & -p
RECURSIVE FenwickTree_add_loop(_, _, _)
FenwickTree_add_loop(t, p, x) ==
    IF p <= t.n
    THEN FenwickTree_add_loop([t EXCEPT !.data[p - 1] = @ + x], p + LowBit(p), x)
    ELSE t

FenwickTree_add(t, p, x) ==
    IF ~(0 <= p /\ p < t.n)
    THEN Failed(t)
    ELSE Result(FenwickTree_add_loop(t, p + 1, x), None, TRUE)

\* _sum: while r > 0: s += self.data[r - 1]; r -= r & -r
RECURSIVE FenwickTree_sum_loop(_, _, _)
FenwickTree_sum_loop(t, r, s) ==
    IF r > 0
    THEN FenwickTree_sum_loop(t, r - LowBit(r), s + t.data[r - 1])
    ELSE s

FenwickTree__sum(t, r) == FenwickTree_sum_loop(t, r, 0)

FenwickTree_sum(t, left, right) ==
    IF ~(0 <= left /\ left <= right /\ right <= t.n)
    THEN Failed(t)
    ELSE Result(t, FenwickTree__sum(t, right) - FenwickTree__sum(t, left), TRUE)

\* __str__: [self.sum(i, i + 1) for i in range(self._n)]
RECURSIVE FenwickTree_str_from(_, _)
FenwickTree_str_from(t, i) ==
    IF i >= t.n
    THEN <<>>
    ELSE <<FenwickTree_sum(t, i, i + 1).ret>> \o FenwickTree_str_from(t, i + 1)

FenwickTree_str(t) == FenwickTree_str_from(t, 0)

\* the amounts the caller adds
FenAmounts == {3, 5, 0 - 2}

\* the positions and ends the caller tries, in and out of range
FenArgs == (0 - 1)..(fenwick.self.n + 1)

FenInit ==
    /\ TreeIdle
    /\ bit = None /\ dsu = None /\ str = None /\ math = None
    /\ \E m \in 0..MaxFenN :
          fenwick = [self |-> FenwickTree_init(m), adds |-> <<>>, ret |-> <<>>]

\* adds is the list of the add calls that returned; ret is <<v>> when the last
\* call returned the number v and <<>> when it returned None or raised
FenAdd ==
    \E p \in FenArgs, x \in FenAmounts :
        LET r == FenwickTree_add(fenwick.self, p, x)
        IN  /\ Len(fenwick.adds) < MaxAdds
            /\ fenwick' = [self |-> r.t,
                           adds |-> IF r.ok THEN Append(fenwick.adds, <<p, x>>)
                                            ELSE fenwick.adds,
                           ret  |-> <<>>]
            /\ UNCHANGED <<treeVars, bit, dsu, str, math>>

FenSum ==
    \E left \in FenArgs, right \in FenArgs :
        LET r == FenwickTree_sum(fenwick.self, left, right)
        IN  /\ fenwick' = [fenwick EXCEPT !.self = r.t,
                                          !.ret = IF r.ok THEN <<r.ret>> ELSE <<>>]
            /\ UNCHANGED <<treeVars, bit, dsu, str, math>>

FenNext == FenAdd \/ FenSum

FenSpec == FenInit /\ [][FenNext]_vars

----------------------------------------------------------------------------
(* atcoder/string.py: suffix_array and the three sorts it chooses from.    *)
(* A Python list is a function on 0..(length - 1), the length is passed    *)
(* along as len.  A for loop is the operator For applied to the name of    *)
(* the loop, the variables the body reads (c) and the variables it writes  *)
(* (acc); LoopBody is one iteration.                                       *)

\* the Python list with the elements of the sequence xs
PyList(xs) == [i \in 0..(Len(xs) - 1) |-> xs[i + 1]]

\* [v] * m
Fill(v, m) == [i \in 0..(m - 1) |-> v]

\* the index list[k] reads in a list of m elements: k, or k + m for a negative
\* k; m itself stands for IndexError
PyIndex(k, m) ==
    IF 0 <= k /\ k < m THEN k
    ELSE IF k < 0 /\ k + m >= 0 THEN k + m
    ELSE m

IndexError == "IndexError"

\* what a call gives back: the value it returns, or the exception it raises
Returns(v) == [ok |-> TRUE, ret |-> v]

Raises(name) == [ok |-> FALSE, ret |-> name]

SetMin(K) == CHOOSE k \in K : \A j \in K : k <= j

\* s[i:] < s[j:] as Python compares lists: by the first place they differ in,
\* and the shorter one first when there is none
SuffixLess(s, len, i, j) ==
    LET last == len - 1 - (IF i > j THEN i ELSE j)
        diffs == {t \in 0..last : s[i + t] # s[j + t]}
    IN  IF diffs = {} THEN i > j
        ELSE s[i + SetMin(diffs)] < s[j + SetMin(diffs)]

\* sorted with x put in front of the elements in later, behind all others
InsertBefore(sorted, later, x) ==
    LET p == IF later = {} THEN Len(sorted) ELSE SetMin(later) - 1
    IN  SubSeq(sorted, 1, p) \o <<x>> \o SubSeq(sorted, p + 1, Len(sorted))

\* sorted() is stable: x goes in front of the first element whose key is
\* greater than its own
sa_naive_insert(s, len, sorted, x) ==
    InsertBefore(sorted, {k \in 1..Len(sorted) : SuffixLess(s, len, x, sorted[k])}, x)

\* the closure cmp(x, y) of _sa_doubling, reading the current rnk and k
sa_doubling_cmp(rnk, len, k, x, y) ==
    IF rnk[x] # rnk[y]
    THEN rnk[x] - rnk[y]
    ELSE LET rx == IF x + k < len THEN rnk[x + k] ELSE 0 - 1
             ry == IF y + k < len THEN rnk[y + k] ELSE 0 - 1
         IN  rx - ry

\* list.sort is stable: x goes in front of the first element cmp puts after it
sa_doubling_insert(rnk, len, k, sorted, x) ==
    InsertBefore(sorted,
                 {j \in 1..Len(sorted) : sa_doubling_cmp(rnk, len, k, x, sorted[j]) < 0},
                 x)

\* tmp[sa[i]] = tmp[sa[i - 1]] + (1 if cmp(sa[i - 1], sa[i]) else 0)
sa_doubling_rank(c, i, tmp) ==
    [tmp EXCEPT ![c.sa[i]] =
         tmp[c.sa[i - 1]]
         + (IF sa_doubling_cmp(c.rnk, c.len, c.k, c.sa[i - 1], c.sa[i]) # 0 THEN 1 ELSE 0)]

\* ls[i] = ls[i + 1] if s[i] == s[i + 1] else s[i] < s[i + 1]
sa_is_ls(c, i, ls) ==
    [ls EXCEPT ![i] = IF c.s[i] = c.s[i + 1] THEN ls[i + 1] ELSE c.s[i] < c.s[i + 1]]

\* if not ls[i]: sum_s[s[i]] += 1 else: sum_l[s[i] + 1] += 1
\* both lists have upper + 1 elements; err: an index was out of range, which
\* ends the loop
sa_is_count(c, i, acc) ==
    LET k == PyIndex(IF c.ls[i] THEN c.s[i] + 1 ELSE c.s[i], c.upper + 1)
    IN  IF acc.err THEN acc
        ELSE IF k = c.upper + 1 THEN [acc EXCEPT !.err = TRUE]
        ELSE IF c.ls[i] THEN [acc EXCEPT !.sum_l[k] = @ + 1]
        ELSE [acc EXCEPT !.sum_s[k] = @ + 1]

\* sum_s[i] += sum_l[i]; if i < upper: sum_l[i + 1] += sum_s[i]
sa_is_prefix(c, i, acc) ==
    LET ss == acc.sum_s[i] + acc.sum_l[i]
    IN  [sum_s |-> [acc.sum_s EXCEPT ![i] = ss],
         sum_l |-> IF i < c.upper THEN [acc.sum_l EXCEPT ![i + 1] = @ + ss]
                                  ELSE acc.sum_l,
         err   |-> acc.err]

\* if not ls[i - 1] and ls[i]: lms_map[i] = m; m += 1   and, in the loop
\* after it, lms.append(i); lms is a sequence and m its length
sa_is_lms(c, i, acc) ==
    IF ~c.ls[i - 1] /\ c.ls[i]
    THEN [lms_map |-> [acc.lms_map EXCEPT ![i] = Len(acc.lms)],
          lms     |-> Append(acc.lms, i)]
    ELSE acc

\* induce: for d in lms: if d == n: continue
\*                       sa[buf[s[d]]] = d; buf[s[d]] += 1
\* i counts the elements of lms from 0, st is [sa, buf]
induce_lms(c, i, st) ==
    LET dd == c.lms[i + 1]
    IN  IF dd = c.len THEN st
        ELSE [sa  |-> [st.sa EXCEPT ![st.buf[c.s[dd]]] = dd],
              buf |-> [st.buf EXCEPT ![c.s[dd]] = @ + 1]]

\* induce: v = sa[i]
\*         if v >= 1 and not ls[v - 1]: sa[buf[s[v - 1]]] = v - 1
\*                                      buf[s[v - 1]] += 1
induce_l(c, i, st) ==
    LET v == st.sa[i]
    IN  IF v >= 1 /\ ~c.ls[v - 1]
        THEN [sa  |-> [st.sa EXCEPT ![st.buf[c.s[v - 1]]] = v - 1],
              buf |-> [st.buf EXCEPT ![c.s[v - 1]] = @ + 1]]
        ELSE st

\* induce: v = sa[i]
\*         if v >= 1 and ls[v - 1]: buf[s[v - 1] + 1] -= 1
\*                                  sa[buf[s[v - 1] + 1]] = v - 1
induce_s(c, i, st) ==
    LET v == st.sa[i]
        b == st.buf[c.s[v - 1] + 1] - 1
    IN  IF v >= 1 /\ c.ls[v - 1]
        THEN [sa  |-> [st.sa EXCEPT ![b] = v - 1],
              buf |-> [st.buf EXCEPT ![c.s[v - 1] + 1] = b]]
        ELSE st

\* for v in sa: if lms_map[v] != -1: sorted_lms.append(v)
\* (lms_map has n + 1 elements: v = -1 reads the last one)
sa_is_sorted_lms(c, i, sorted_lms) ==
    IF c.lms_map[PyIndex(c.sa[i], c.len + 1)] # 0 - 1
    THEN Append(sorted_lms, c.sa[i])
    ELSE sorted_lms

\* while left < end_l: if s[left] != s[right]: break
\*                     left += 1; right += 1
\* gives [left, right, err]; err: s[right] was read with right = n
sa_is_walk(s, len, left, right, end_l) ==
    LET stops == {t \in 0..(end_l - left - 1) :
                      right + t >= len \/ s[left + t] # s[right + t]}
        t == IF stops = {} THEN end_l - left ELSE SetMin(stops)
    IN  [left |-> left + t, right |-> right + t,
         err |-> stops # {} /\ right + t >= len]

\* lines 122-143: whether the LMS substrings at left0 and right0 are the same
sa_is_same(s, len, lms, lms_map, left0, right0) ==
    LET m == Len(lms)
        end_l == IF lms_map[left0] + 1 < m THEN lms[lms_map[left0] + 2] ELSE len
        end_r == IF lms_map[right0] + 1 < m THEN lms[lms_map[right0] + 2] ELSE len
        w == sa_is_walk(s, len, left0, right0, end_l)
    IN  IF end_l - left0 # end_r - right0 THEN [same |-> FALSE, err |-> FALSE]
        ELSE IF w.err THEN [same |-> FALSE, err |-> TRUE]
        ELSE IF w.left = len THEN [same |-> FALSE, err |-> FALSE]
        ELSE IF w.right >= len THEN [same |-> FALSE, err |-> TRUE]
        ELSE [same |-> s[w.left] = s[w.right], err |-> FALSE]

\* lines 122-147 for one i; sorted_lms is a sequence, acc is
\* [rec_s, rec_upper, err]; err ends the loop
sa_is_names(c, i, acc) ==
    LET r == sa_is_same(c.s, c.len, c.lms, c.lms_map,
                        c.sorted_lms[i], c.sorted_lms[i + 1])
        u == IF r.same THEN acc.rec_upper ELSE acc.rec_upper + 1
    IN  IF acc.err THEN acc
        ELSE IF r.err THEN [acc EXCEPT !.err = TRUE]
        ELSE [rec_s     |-> [acc.rec_s EXCEPT ![c.lms_map[c.sorted_lms[i + 1]]] = u],
              rec_upper |-> u,
              err       |-> FALSE]

\* sorted_lms[i] = lms[rec_sa[i]]
sa_is_reorder(c, i, sorted_lms) == Append(sorted_lms, c.lms[c.rec_sa[i] + 1])

\* idx.sort(key=functools.cmp_to_key(cmp)) with cmp = s[left] - s[right]:
\* stable, x goes in front of the first element with a greater value
suffix_array_insert(s, sorted, x) ==
    InsertBefore(sorted, {k \in 1..Len(sorted) : s[x] - s[sorted[k]] < 0}, x)

\* if i and s[idx[i - 1]] != s[idx[i]]: now += 1
\* s2[idx[i]] = now
suffix_array_s2(c, i, acc) ==
    LET now == IF i # 0 /\ c.s[c.idx[i - 1]] # c.s[c.idx[i]] THEN acc.now + 1
                                                             ELSE acc.now
    IN  [s2 |-> [acc.s2 EXCEPT ![c.idx[i]] = now], now |-> now]

\* one iteration of the loop called loop, i the value of its loop variable
LoopBody(loop, c, i, acc) ==
    CASE loop = "sa_naive"         -> sa_naive_insert(c.s, c.len, acc, i)
      [] loop = "sa_doubling_sort" -> sa_doubling_insert(c.rnk, c.len, c.k, acc, c.sa[i])
      [] loop = "sa_doubling_rank" -> sa_doubling_rank(c, i, acc)
      [] loop = "sa_is_ls"         -> sa_is_ls(c, i, acc)
      [] loop = "sa_is_count"      -> sa_is_count(c, i, acc)
      [] loop = "sa_is_prefix"     -> sa_is_prefix(c, i, acc)
      [] loop = "sa_is_lms"        -> sa_is_lms(c, i, acc)
      [] loop = "induce_lms"       -> induce_lms(c, i, acc)
      [] loop = "induce_l"         -> induce_l(c, i, acc)
      [] loop = "induce_s"         -> induce_s(c, i, acc)
      [] loop = "sa_is_sorted_lms" -> sa_is_sorted_lms(c, i, acc)
      [] loop = "sa_is_names"      -> sa_is_names(c, i, acc)
      [] loop = "sa_is_reorder"    -> sa_is_reorder(c, i, acc)
      [] loop = "suffix_array_idx" -> suffix_array_insert(c.s, acc, i)
      [] loop = "suffix_array_s2"  -> suffix_array_s2(c, i, acc)

\* Done(x) is TRUE; it makes the evaluator finish x before it goes on
Done(x) == x = x

\* the iterations i, i + step, ... up to last (down to last when step is -1)
RECURSIVE ForRun(_, _, _, _, _, _)
ForRun(loop, c, i, last, step, acc) ==
    IF (last - i) * step < 0 \/ ~Done(acc) THEN acc
    ELSE ForRun(loop, c, i + step, last, step, LoopBody(loop, c, i, acc))

\* a loop is evaluated Stride iterations at a time, each run finished before
\* the next starts: the evaluator's stack does not hold one nested evaluation
\* for every iteration of a long loop
Stride == 16

RECURSIVE ForBy(_, _, _, _, _, _)

\* run is what the run that starts at i has left in acc
ForNext(loop, c, i, last, step, run) ==
    IF Done(run) THEN ForBy(loop, c, i + step * Stride, last, step, run) ELSE run

ForBy(loop, c, i, last, step, acc) ==
    IF (last - i) * step < 0 THEN acc
    ELSE ForNext(loop, c, i, last, step,
                 ForRun(loop, c, i,
                        IF (last - (i + step * (Stride - 1))) * step < 0
                        THEN last ELSE i + step * (Stride - 1),
                        step, acc))

\* for i in range(first, last + 1)
For(loop, c, first, last, acc) == ForBy(loop, c, first, last, 1, acc)

\* for i in range(first, last - 1, -1)
ForDown(loop, c, first, last, acc) == ForBy(loop, c, first, last, 0 - 1, acc)

\* sa = list(range(len(s))); return sorted(sa, key=lambda i: s[i:])
sa_naive(s, len) == PyList(For("sa_naive", [s |-> s, len |-> len], 0, len - 1, <<>>))

\* mutant: the loop ends after its first round
sa_doubling_test_once(k, len) == k < len /\ k < 2

\* while k < n
sa_doubling_test(k, len) == k < len

\* one round of the loop: sort, rank into tmp, swap tmp and rnk, k *= 2
RECURSIVE sa_doubling_loop(_, _, _, _, _)

\* tmp, rnk = rnk, tmp; k *= 2   with tmp2 the ranks the round has computed
sa_doubling_swap(len, sa, rnk, tmp2, k) ==
    IF Done(tmp2) THEN sa_doubling_loop(len, sa, tmp2, rnk, k * 2) ELSE sa

\* tmp[sa[0]] = 0 and the loop over range(1, n), sa sorted by cmp
sa_doubling_sorted(len, sa, rnk, tmp, k) ==
    sa_doubling_swap(len, sa, rnk,
                     For("sa_doubling_rank", [len |-> len, rnk |-> rnk, k |-> k, sa |-> sa],
                         1, len - 1, [tmp EXCEPT ![sa[0]] = 0]),
                     k)

sa_doubling_loop(len, sa, rnk, tmp, k) ==
    IF sa_doubling_test(k, len)
    THEN sa_doubling_sorted(len,
                            PyList(For("sa_doubling_sort",
                                       [len |-> len, rnk |-> rnk, k |-> k, sa |-> sa],
                                       0, len - 1, <<>>)),
                            rnk, tmp, k)
    ELSE sa

sa_doubling(s, len) ==
    sa_doubling_loop(len, PyList([i \in 1..len |-> i - 1]), s, Fill(0, len), 1)

threshold_naive == 10

threshold_doubling == 40

\* the closure induce(lms) of _sa_is: the value it leaves in sa
induce_s_part(c, sum_l, st2) ==
    ForDown("induce_s", c, c.len - 1, 0, [sa |-> st2.sa, buf |-> sum_l]).sa

\* buf = sum_l.copy(); sa[buf[s[n - 1]]] = n - 1; buf[s[n - 1]] += 1
induce_l_part(c, sum_l, st1) ==
    induce_s_part(c, sum_l,
                  For("induce_l", c, 0, c.len - 1,
                      [sa  |-> [st1.sa EXCEPT ![sum_l[c.s[c.len - 1]]] = c.len - 1],
                       buf |-> [sum_l EXCEPT ![c.s[c.len - 1]] = @ + 1]]))

induce(c, sum_s, sum_l, lms) ==
    induce_l_part(c, sum_l,
                  For("induce_lms", [c EXCEPT !.lms = lms], 0, Len(lms) - 1,
                      [sa |-> Fill(0 - 1, c.len), buf |-> sum_s]))

RECURSIVE sa_is(_, _, _)

\* _sa_is after the recursive call: sorted_lms in the order of rec_sa, induce
sa_is_recursed(c, sums, lms, rec_sa) ==
    IF ~rec_sa.ok THEN rec_sa
    ELSE Returns(induce(c, sums.sum_s, sums.sum_l,
                        For("sa_is_reorder", [lms |-> lms, rec_sa |-> rec_sa.ret],
                            0, Len(lms) - 1, <<>>)))

\* rec_sa = _sa_is(rec_s, rec_upper)
sa_is_named(c, sums, lms, names) ==
    IF names.err THEN Raises(IndexError)
    ELSE sa_is_recursed(c, sums, lms, sa_is(names.rec_s, Len(lms), names.rec_upper))

\* the loop that gives every LMS substring its name in rec_s
sa_is_sorted(c, sums, found, sorted_lms) ==
    sa_is_named(c, sums, found.lms,
                For("sa_is_names",
                    [s |-> c.s, len |-> c.len, lms |-> found.lms,
                     lms_map |-> found.lms_map, sorted_lms |-> sorted_lms],
                    1, Len(found.lms) - 1,
                    [rec_s |-> [Fill(0, Len(found.lms))
                                    EXCEPT ![found.lms_map[sorted_lms[1]]] = 0],
                     rec_upper |-> 0,
                     err |-> FALSE]))

\* if m: the LMS suffixes in the order induce(lms) left them in sa
sa_is_induced(c, sums, found, sa1) ==
    IF Len(found.lms) = 0 THEN Returns(sa1)
    ELSE sa_is_sorted(c, sums, found,
                      For("sa_is_sorted_lms",
                          [len |-> c.len, sa |-> sa1, lms_map |-> found.lms_map],
                          0, c.len - 1, <<>>))

\* induce(lms)
sa_is_found(c, sums, found) ==
    sa_is_induced(c, sums, found, induce(c, sums.sum_s, sums.sum_l, found.lms))

\* the prefix sums of the counts, then lms_map and lms
sa_is_counted(c, cnt) ==
    IF cnt.err THEN Raises(IndexError)
    ELSE sa_is_found(c, For("sa_is_prefix", c, 0, c.upper, cnt),
                     For("sa_is_lms", c, 1, c.len - 1,
                         [lms_map |-> Fill(0 - 1, c.len + 1), lms |-> <<>>]))

\* the counts sum_l and sum_s of the L-type and S-type characters
sa_is_classified(c) ==
    sa_is_counted(c, For("sa_is_count", c, 0, c.len - 1,
                         [sum_l |-> Fill(0, c.upper + 1), sum_s |-> Fill(0, c.upper + 1),
                          err |-> FALSE]))

sa_is(s, len, upper) ==
    IF len = 0 THEN Returns(PyList(<<>>))
    ELSE IF len = 1 THEN Returns(PyList(<<0>>))
    ELSE IF len = 2 THEN Returns(IF s[0] < s[1] THEN PyList(<<0, 1>>) ELSE PyList(<<1, 0>>))
    ELSE IF len < threshold_naive THEN Returns(sa_naive(s, len))
    ELSE IF len < threshold_doubling THEN Returns(sa_doubling(s, len))
    ELSE sa_is_classified([s |-> s, len |-> len, upper |-> upper, lms |-> <<>>,
                           ls |-> ForDown("sa_is_ls", [s |-> s, len |-> len],
                                          len - 2, 0, Fill(FALSE, len))])

\* ord(c) of the characters the caller's strings are made of
ord == [a |-> 97, b |-> 98, c |-> 99, a_macron |-> 257]

\* input is [kind, items, upper]: kind "str" or "list", items the sequence of
\* the characters or numbers, upper <<>> for None and <<u>> for the number u
suffix_array_ranked(len, r) == sa_is(r.s2, len, r.now)

\* the loop over range(n) that writes s2, idx sorted by cmp
suffix_array_sorted(s, len, idx) ==
    suffix_array_ranked(len, For("suffix_array_s2", [s |-> s, idx |-> idx], 0, len - 1,
                                 [s2 |-> Fill(0, len), now |-> 0]))

suffix_array_of(kind, s, len, upper) ==
    IF kind = "str"
    THEN sa_is([i \in 0..(len - 1) |-> ord[s[i]]], len, 255)
    ELSE IF upper = <<>>
    THEN suffix_array_sorted(s, len,
                             PyList(For("suffix_array_idx", [s |-> s], 0, len - 1, <<>>)))
    ELSE IF ~(0 <= upper[1]) \/ \E i \in 0..(len - 1) : ~(0 <= s[i] /\ s[i] <= upper[1])
    THEN Raises("AssertionError")
    ELSE sa_is(s, len, upper[1])

suffix_array(input) ==
    suffix_array_of(input.kind, PyList(input.items), Len(input.items), input.upper)

\* the word w repeated and cut to len elements
Repeat(w, len) == [i \in 1..len |-> w[((i - 1) % Len(w)) + 1]]

Words(C) == UNION {[1..k -> C] : k \in 1..MaxWord}

\* every short length, and the lengths around the threshold of SA-IS
Lengths == 0..MaxShort \cup (threshold_doubling - 1)..(threshold_doubling + MaxOver)

StrChars == {"a", "b", "c", "a_macron"}

ListItems == {0 - 1, 0, 2}

ListUppers == {<<>>, <<1>>, <<2>>}

StrInputs ==
    {[kind |-> "str", items |-> Repeat(w, len), upper |-> <<>>] :
         w \in Words(StrChars), len \in Lengths}
    \cup
    {[kind |-> "list", items |-> Repeat(w, len), upper |-> u] :
         w \in Words(ListItems), len \in Lengths, u \in ListUppers}

StrInit ==
    /\ TreeIdle
    /\ bit = None /\ dsu = None /\ fenwick = None /\ math = None
    /\ \E input \in StrInputs :
          str = [input |-> input, pc |-> "call", ok |-> TRUE, ret |-> None]

\* the call runs to its return or to the exception it raises
StrReturned(r) == [str EXCEPT !.pc = "return", !.ok = r.ok, !.ret = r.ret]

StrReturn ==
    /\ str' = StrReturned(suffix_array(str.input))
    /\ UNCHANGED <<treeVars, bit, dsu, fenwick, math>>

StrLen == Len(str.input.items)

\* _sa_is: n == 0, n == 1, n == 2
StrSpecial == str.pc = "call" /\ StrLen <= 2 /\ StrReturn

\* _sa_is: n < threshold_naive
StrNaive == str.pc = "call" /\ 2 < StrLen /\ StrLen < threshold_naive /\ StrReturn

\* _sa_is: n < threshold_doubling
StrDoubling ==
    /\ str.pc = "call"
    /\ threshold_naive <= StrLen /\ StrLen < threshold_doubling
    /\ StrReturn

\* _sa_is: induced sorting
StrInduced == str.pc = "call" /\ threshold_doubling <= StrLen /\ StrReturn

StrNext == StrSpecial \/ StrNaive \/ StrDoubling \/ StrInduced

StrSpec == StrInit /\ [][StrNext]_vars

----------------------------------------------------------------------------
(* Vocabulary of the properties.                                           *)

\* op folded left to right over a sequence of values, starting from e
RECURSIVE FoldLeft(_, _, _)
FoldLeft(A, acc, xs) ==
    IF xs = <<>> THEN acc ELSE FoldLeft(A, op(A, acc, Head(xs)), Tail(xs))

\* the caller's view: what get(i) returns when called on the instance t
GetOf(c, t, i) ==
    IF c = "SegTree" THEN SegTree_get(t, i).ret ELSE LazySegTree_get(t, i).ret

ProdOf(c, t, l, r) ==
    IF c = "SegTree" THEN SegTree_prod(t, l, r).ret ELSE LazySegTree_prod(t, l, r).ret

\* get(l), ..., get(r-1), each asked of the instance t
RECURSIVE Gets(_, _, _, _)
Gets(c, t, l, r) ==
    IF l >= r THEN <<>> ELSE <<GetOf(c, t, l)>> \o Gets(c, t, l + 1, r)

\* gets = get(0), ..., get(n-1): op folded over get(l), ..., get(r-1)
FoldGets(A, gets, l, r) == FoldLeft(A, e(A), SubSeq(gets, l + 1, r))

\* the law the lazy tree needs beyond the three of the data model:
\* mapping(f, .) distributes over op
Distributes(A) ==
    \A f \in F(A), x \in S(A), y \in S(A) :
        mapping(A, f, op(A, x, y)) = op(A, mapping(A, f, x), mapping(A, f, y))

\* the three laws the data model lists
ThreeLaws(A) ==
    /\ \A x \in S(A) : mapping(A, id_(A), x) = x
    /\ \A f \in F(A) : composition(A, f, id_(A)) = f /\ composition(A, id_(A), f) = f
    /\ \A f \in F(A), h \in F(A), x \in S(A) :
          mapping(A, composition(A, f, h), x) = mapping(A, f, mapping(A, h, x))

\* (op, e) is a monoid
IsMonoid(A) ==
    /\ \A x \in S(A) : op(A, e(A), x) = x /\ op(A, x, e(A)) = x
    /\ \A x \in S(A), y \in S(A), z \in S(A) :
          op(A, op(A, x, y), z) = op(A, x, op(A, y, z))

DistributiveAlgs == {A \in Algs : Distributes(A)}

\* the algebras that meet what the data model asks of the caller
DataModelAlgs == {A \in Algs : IsMonoid(A) /\ ThreeLaws(A)}

\* some internal node holds a mapping that is not yet pushed to its children
Pending(t) == \E k \in 1..(t.size - 1) : t.lz[k] # id_(t.alg)

----------------------------------------------------------------------------
(* C1  SegTree.prod: in every state reached by construction and set calls, *)
(* for every 0 <= l <= r <= n, prod(l, r) is op folded left to right over  *)
(* get(l), ..., get(r-1); prod(i, i) = e.  op is associative with identity *)
(* e and, for "cat", not commutative.                                      *)
C1_ProdIsFold ==
    cls = "SegTree" =>
        LET gets == Gets("SegTree", Self, 0, n)
        IN  \A l \in 0..n, r \in 0..n :
                l <= r =>
                    LET pr == SegTree_prod(Self, l, r)
                    IN  /\ pr.ok
                        /\ pr.ret = FoldGets(alg, gets, l, r)
                        /\ (l = r => pr.ret = e(alg))

\* a product that takes one node on the left (sml) and one on the right
\* (smr) and whose operands do not commute
C1_Witness ==
    /\ cls = "SegTree" /\ alg = "cat" /\ n = 3
    /\ SegTree_values(Self) = << <<"a">>, <<"b">>, <<"a">> >>
    /\ SegTree_prod(Self, 1, 3).ret = <<"b", "a">>
    /\ SegTree_prod(Self, 0, 3).ret = Take(<<"a", "b", "a">>, MaxStrLen)

----------------------------------------------------------------------------
(* C2  LazySegTree.prod as the claim states it: for every algebra that is  *)
(* a monoid and satisfies the three laws of the data model, in every state *)
(* reached by set and apply calls, prod(l, r) is op folded left to right   *)
(* over get(l), ..., get(r-1), and prod(i, i) = e.                         *)
LazyProdIsFold ==
    LET gets == Gets("LazySegTree", Self, 0, n)
    IN  \A l \in 0..n, r \in 0..n :
            l <= r =>
                LET pr == LazySegTree_prod(Self, l, r)
                IN  /\ pr.ok
                    /\ pr.ret = FoldGets(alg, gets, l, r)
                    /\ (l = r => pr.ret = e(alg))

C2_Original ==
    (cls = "LazySegTree" /\ alg \in DataModelAlgs) => LazyProdIsFold

(* C2 as amended: the same, for every algebra whose mapping(f, .) also     *)
(* distributes over op: mapping(f, op(x, y)) = op(mapping(f, x),           *)
(* mapping(f, y)).                                                         *)
C2_LazyProdIsFold ==
    (cls = "LazySegTree" /\ alg \in DataModelAlgs /\ alg \in DistributiveAlgs)
        => LazyProdIsFold

\* node 2 holds a pending mapping, the stored leaf 5 is stale, and prod(1, 3)
\* pushes node 2 before it reads leaf 5
C2_Witness ==
    /\ cls = "LazySegTree" /\ alg = "cat" /\ n = 3
    /\ lz[2] = [c \in Letters |-> "b"]
    /\ d[5] = <<"a">>
    /\ arr = << <<"b">>, <<"b">>, <<"a">> >>
    /\ LazySegTree_prod(Self, 1, 3).ret = <<"b", "a">>
    /\ LazySegTree_prod(Self, 1, 3).t.lz[2] = id_(alg)

----------------------------------------------------------------------------
(* C3  LazySegTree.apply: from every reachable state (pending mappings     *)
(* included), after apply(l, r, f) with 0 <= l <= r <= n, and after the    *)
(* point form apply(p, f) with 0 <= p < n, get(i) is mapping(f, the value  *)
(* get(i) had before) for every targeted i and is what it was for every    *)
(* other i; apply with l = r changes nothing.                              *)
\* before = get(0), ..., get(n-1) of the instance the call was made on
AppliedTo(before, t2, l, r, f) ==
    \A i \in 0..(n - 1) :
        GetOf("LazySegTree", t2, i) =
            IF l <= i /\ i < r
            THEN mapping(alg, f, before[i + 1])
            ELSE before[i + 1]

C3_ApplyMapsTargets ==
    cls = "LazySegTree" =>
        LET before == Gets("LazySegTree", Self, 0, n)
        IN  \A f \in F(alg) :
                /\ \A l \in 0..n, r \in 0..n :
                      l <= r =>
                          LET a == LazySegTree_apply(Self, l, <<r>>, <<f>>)
                          IN  /\ a.ok
                              /\ AppliedTo(before, a.t, l, r, f)
                              /\ (l = r => a.t = Self)
                /\ \A p \in 0..(n - 1) :
                      LET a == LazySegTree_apply(Self, p, <<>>, <<f>>)
                      IN  a.ok /\ AppliedTo(before, a.t, p, p + 1, f)

\* the state after a range apply that covered node 2 (a pending mapping on
\* node 2, stale leaves below it), from which apply(1, 3, f) with a mapping
\* that does not commute with the pending one changes get(1) and get(2)
C3_Witness ==
    /\ cls = "LazySegTree" /\ alg = "cat" /\ n = 3
    /\ lz[2] = [c \in Letters |-> "b"]
    /\ d[4] = <<"a">> /\ d[5] = <<"a">>
    /\ arr = << <<"b">>, <<"b">>, <<"a">> >>
    /\ LET f == [c \in Letters |-> IF c = "a" THEN "b" ELSE "a"]
           a == LazySegTree_apply(Self, 1, <<3>>, <<f>>)
       IN  /\ GetOf("LazySegTree", a.t, 0) = <<"b">>
           /\ GetOf("LazySegTree", a.t, 1) = <<"a">>
           /\ GetOf("LazySegTree", a.t, 2) = <<"b">>

----------------------------------------------------------------------------
(* C5  set(p, x) with 0 <= p < n, on SegTree and on LazySegTree, from      *)
(* every reachable state (ancestors of leaf p may hold pending mappings):  *)
(* afterwards get(p) = x and get(q) is what it was for every q # p.        *)
SetOf(c, t, p, x) ==
    IF c = "SegTree" THEN SegTree_set(t, p, x) ELSE LazySegTree_set(t, p, x)

C5_SetFrame ==
    LET before == Gets(cls, Self, 0, n)
    IN  \A p \in 0..(n - 1), x \in X(alg) :
            LET s == SetOf(cls, Self, p, x)
            IN  /\ s.ok
                /\ GetOf(cls, s.t, p) = x
                /\ \A q \in 0..(n - 1) : q # p => GetOf(cls, s.t, q) = before[q + 1]

\* the parent of leaf 0 holds a pending mapping that would turn the stored
\* <<"a">> into <<"b">>: set(0, "a") must push it first, and get(1) must still
\* see the mapped value of the stale sibling leaf
C5_Witness ==
    /\ cls = "LazySegTree" /\ alg = "cat" /\ n = 3
    /\ lz[2] = [c \in Letters |-> "b"]
    /\ d[5] = <<"a">>
    /\ LET s == LazySegTree_set(Self, 0, <<"a">>)
       IN  /\ GetOf("LazySegTree", s.t, 0) = <<"a">>
           /\ GetOf("LazySegTree", s.t, 1) = <<"b">>
           /\ s.t.lz[2] = id_(alg)

----------------------------------------------------------------------------
(* C4  The written lazy scenario: sum monoid, mapping = add, built over    *)
(* [5, 3, 7, 9, 6]; after set(1, 1) and apply(2, 5, 1) the caller reads    *)
(* get(2), get(3), get(4) and prod(0, 5), in this order.                   *)
AfterScenario ==
    /\ cls = "LazySegTree" /\ alg = "sum"
    /\ hist = << <<"set", 1, 1>>, <<"apply", 2, 5, 1>> >>

ScenarioReads ==
    LET r1 == LazySegTree_get(Self, 2)
        r2 == LazySegTree_get(r1.t, 3)
        r3 == LazySegTree_get(r2.t, 4)
        r4 == LazySegTree_prod(r3.t, 0, 5)
    IN  <<r1.ret, r2.ret, r3.ret, r4.ret>>

\* as the claim states it: get(2) = 8, get(3) = 10, get(4) = 7, prod(0, 5) = 31
C4_Original == AfterScenario => ScenarioReads = <<8, 10, 7, 31>>

(* C4 as amended: get(2) = 8, get(3) = 10, get(4) = 7 and prod(0, 5) = 30  *)
(* (the elements then sum to 31, but prod returns the stored aggregates,   *)
(* to which apply added 1 once per covered node, not once per element).    *)
C4_Scenario == AfterScenario => ScenarioReads = <<8, 10, 7, 30>>

C4_Witness ==
    /\ AfterScenario
    /\ arr = <<5, 1, 8, 10, 7>>
    /\ lz[5] = 1
    /\ ScenarioReads[1] = 8

----------------------------------------------------------------------------
(* C6  Composition order: from every reachable LazySegTree state, for every*)
(* range [l, r) and mappings f1, f2, apply(l, r, f1) followed by           *)
(* apply(l, r, f2) leaves an instance that answers every get, prod,        *)
(* all_prod, max_right and min_left call as the instance left by the       *)
(* single call apply(l, r, composition(f2, f1)) does.                      *)
SameAnswers(t1, t2) ==
    /\ \A i \in 0..(n - 1) : LazySegTree_get(t1, i).ret = LazySegTree_get(t2, i).ret
    /\ \A l \in 0..n, r \in 0..n :
          l <= r => LazySegTree_prod(t1, l, r).ret = LazySegTree_prod(t2, l, r).ret
    /\ LazySegTree_all_prod(t1).ret = LazySegTree_all_prod(t2).ret
    /\ \A l \in 0..n, p \in Preds(alg) :
          /\ LazySegTree_max_right(t1, l, p).ret = LazySegTree_max_right(t2, l, p).ret
          /\ LazySegTree_min_left(t1, l, p).ret = LazySegTree_min_left(t2, l, p).ret

\* two instances with the same fields answer alike; otherwise compare the answers
ObservablyEqual(t1, t2) == t1 = t2 \/ SameAnswers(t1, t2)

\* the pairs <<f, the instance left by apply(l, r, f)>>, one for each mapping f
OneApply(t, l, r) == {<<f, LazySegTree_apply(t, l, <<r>>, <<f>>).t>> : f \in F(t.alg)}

TwoApplies(t, l, r, f1, f2) ==
    LazySegTree_apply(LazySegTree_apply(t, l, <<r>>, <<f1>>).t, l, <<r>>, <<f2>>).t

C6_CompositionOrder ==
    cls = "LazySegTree" =>
        \A l \in 0..n, r \in 0..n :
            l <= r =>
                LET once == OneApply(Self, l, r)
                IN  \A first \in once, f2 \in F(alg) :
                        \E composed \in once :
                            /\ composed[1] = composition(alg, f2, first[1])
                            /\ ObservablyEqual(LazySegTree_apply(first[2], l, <<r>>, <<f2>>).t,
                                               composed[2])

\* f1 = "all to a", then f2 = "all to b", over a node that already holds a
\* pending mapping: composition(f2, f1) = "all to b", composition(f1, f2)
\* would be "all to a"
C6_Witness ==
    /\ cls = "LazySegTree" /\ alg = "cat" /\ n = 3
    /\ lz[2] = [c \in Letters |-> IF c = "a" THEN "b" ELSE "a"]
    /\ LET f1 == [c \in Letters |-> "a"]
           f2 == [c \in Letters |-> "b"]
           t2 == TwoApplies(Self, 0, 2, f1, f2)
       IN  /\ composition(alg, f2, f1) # composition(alg, f1, f2)
           /\ t2.lz[2] = f2
           /\ LazySegTree_get(t2, 0).ret = <<"b">>
           /\ LazySegTree_prod(t2, 0, 3).ret = Take(<<"b", "b">> \o arr[3], MaxStrLen)

----------------------------------------------------------------------------
(* The searching caller: every tree of Spec under every call, and the      *)
(* documented example [5, 3, 7, 9, 6] (sum and min, both classes) after at *)
(* most MaxCalls logged calls of set and of a range apply that adds        *)
(* 1 or takes 5 away, searched by max_right from every left bound.  On the *)
(* example (size 8) the scan meets pending mappings off the path of the    *)
(* left bound.                                                             *)

SearchMaps == {0 - 5, 1}

SearchInit == Init \/ ScenarioInit

\* the calls of Spec on the trees of Spec
SearchSmall == alg \in Algs /\ Next

SearchSet == alg \notin Algs /\ ScnSet

SearchMaxRight == alg \notin Algs /\ MaxRight

SearchApply ==
    /\ alg \notin Algs
    /\ Len(hist) < MaxCalls
    /\ cls = "LazySegTree"
    /\ \E l \in 0..n, r \in 0..n, f \in SearchMaps :
          /\ l < r
          /\ LET res == LazySegTree_apply(Self, l, <<r>>, <<f>>)
             IN  /\ Becomes(res.t)
                 /\ arr' = ArrApply(res, l, r, <<f>>)
                 /\ hist' = Append(hist, <<"apply", l, r, f>>)

SearchNext == SearchSmall \/ SearchSet \/ SearchApply \/ SearchMaxRight

SearchSpec == SearchInit /\ [][SearchNext]_vars

----------------------------------------------------------------------------
(* C7  max_right(l, g) on SegTree and on LazySegTree, from every reachable *)
(* state: for 0 <= l <= n, g(e) true and g monotone over the right         *)
(* extensions of l, it returns the unique r in l..n with g(prod(l, r))     *)
(* true and (r = n or g(prod(l, r+1)) false); so it returns n for l = n    *)
(* and never an index beyond n.                                            *)
MaxRightOf(c, t, l, p) ==
    IF c = "SegTree" THEN SegTree_max_right(t, l, p) ELSE LazySegTree_max_right(t, l, p)

MinLeftOf(c, t, r, p) ==
    IF c = "SegTree" THEN SegTree_min_left(t, r, p) ELSE LazySegTree_min_left(t, r, p)

\* prods[k] = prod(l, r) for the k-th longer and longer range [l, r)
RECURSIVE ProdsRightUpTo(_, _)
ProdsRightUpTo(l, r) ==
    IF r < l THEN <<>> ELSE Append(ProdsRightUpTo(l, r - 1), ProdOf(cls, Self, l, r))

ProdsRight(l) == ProdsRightUpTo(l, n)

\* once g fails on prod(l, r) it fails on every longer prod(l, r')
MonotoneRight(prods, p) ==
    \A k \in 1..(Len(prods) - 1) : g(p, prods[k + 1]) => g(p, prods[k])

\* prods = ProdsRight(l): g holds on prod(l, r), and r = n or g fails on prod(l, r + 1)
IsMaxRight(prods, l, p, r) ==
    /\ g(p, prods[r - l + 1])
    /\ (r = n \/ ~g(p, prods[r - l + 2]))

C7_MaxRight ==
    \A l \in 0..n :
        LET prods == ProdsRight(l)
        IN  \A p \in Preds(alg) :
                (g(p, e(alg)) /\ MonotoneRight(prods, p)) =>
                    LET m == MaxRightOf(cls, Self, l, p)
                    IN  /\ m.ok
                        /\ m.ret \in l..n
                        /\ IsMaxRight(prods, l, p, m.ret)
                        /\ \A r \in l..n : IsMaxRight(prods, l, p, r) => r = m.ret

\* the min tree of the documented example after apply(2, 4, -5): 5 is to be
\* taken from the leaves 10 and 11, which still hold 7 and 9, and node 5 is
\* not above leaf 9.  The scan from l = 1 with "at least 3" passes leaf 9,
\* finds node 5 too small, pushes it in the descent and stops at its first
\* leaf; it leaves the mapping of node 5 on its leaves
C7_Witness ==
    /\ cls = "LazySegTree" /\ alg = "min" /\ n = 5
    /\ hist = << <<"apply", 2, 4, 0 - 5>> >>
    /\ lz[5] = 0 - 5 /\ d[5] = 2 /\ d[10] = 7 /\ d[11] = 9
    /\ LET m == MaxRightOf(cls, Self, 1, [kind |-> "ge", arg |-> 3])
       IN  /\ m.ret = 2
           /\ m.t.lz[5] = id_(alg) /\ m.t.d[10] = 2 /\ m.t.d[11] = 4

----------------------------------------------------------------------------
(* C8  min_left(r, g) on SegTree and on LazySegTree, from every reachable  *)
(* state: for 0 <= r <= n, g(e) true and g monotone over the left          *)
(* extensions of r, it returns the unique l in 0..r with g(prod(l, r))     *)
(* true and (l = 0 or g(prod(l-1, r)) false); it returns 0 for r = 0.      *)
\* prods[k] = prod(l, r) for the k-th longer and longer range [l, r)
RECURSIVE ProdsLeftDownTo(_, _)
ProdsLeftDownTo(l, r) ==
    IF l > r THEN <<>> ELSE Append(ProdsLeftDownTo(l + 1, r), ProdOf(cls, Self, l, r))

ProdsLeft(r) == ProdsLeftDownTo(0, r)

\* once g fails on prod(l, r) it fails on every longer prod(l', r)
MonotoneLeft(prods, p) ==
    \A k \in 1..(Len(prods) - 1) : g(p, prods[k + 1]) => g(p, prods[k])

\* prods = ProdsLeft(r): g holds on prod(l, r), and l = 0 or g fails on prod(l - 1, r)
IsMinLeft(prods, r, p, l) ==
    /\ g(p, prods[r - l + 1])
    /\ (l = 0 \/ ~g(p, prods[r - l + 2]))

C8_MinLeft ==
    \A r \in 0..n :
        LET prods == ProdsLeft(r)
        IN  \A p \in Preds(alg) :
                (g(p, e(alg)) /\ MonotoneLeft(prods, p)) =>
                    LET m == MinLeftOf(cls, Self, r, p)
                    IN  /\ m.ok
                        /\ m.ret \in 0..r
                        /\ IsMinLeft(prods, r, p, m.ret)
                        /\ \A l \in 0..r : IsMinLeft(prods, r, p, l) => l = m.ret

C8_Witness ==
    /\ cls = "LazySegTree" /\ alg = "cat" /\ n = 3
    /\ lz[2] = [c \in Letters |-> "b"]
    /\ arr = << <<"b">>, <<"b">>, <<"a">> >>
    /\ MinLeftOf(cls, Self, 3, [kind |-> "lenle", arg |-> 1]).ret = 2
    /\ MinLeftOf(cls, Self, 2, [kind |-> "lenle", arg |-> 1]).ret = 1
    /\ MinLeftOf(cls, Self, 2, [kind |-> "lenle", arg |-> MaxStrLen]).ret = 0

----------------------------------------------------------------------------
(* C9  all_prod() = prod(0, n) in every reachable state of SegTree and of  *)
(* LazySegTree, pending mappings on the root or on other nodes included.   *)
AllProdOf(c, t) ==
    IF c = "SegTree" THEN SegTree_all_prod(t).ret ELSE LazySegTree_all_prod(t).ret

C9_AllProd == AllProdOf(cls, Self) = ProdOf(cls, Self, 0, n)

\* the root itself holds a pending mapping and both leaves are stale
C9_Witness ==
    /\ cls = "LazySegTree" /\ alg = "cat" /\ n = 2
    /\ lz[1] = [c \in Letters |-> "b"]
    /\ d[2] = <<"a">> /\ d[3] = <<"a">>
    /\ AllProdOf(cls, Self) = <<"b", "b">>

----------------------------------------------------------------------------
(* C10  SegTree structure: after construction (from a length or from a    *)
(* list) and after every set call, d[k] = op(d[2k], d[2k+1]) for every     *)
(* internal node 1 <= k < size, and d[size + i] is the i-th element of the *)
(* logical array for 0 <= i < n.                                           *)
C10_SegTreeInvariant ==
    cls = "SegTree" =>
        /\ \A k \in 1..(size - 1) : d[k] = op(alg, d[2 * k], d[2 * k + 1])
        /\ Len(arr) = n
        /\ \A i \in 0..(n - 1) : d[size + i] = arr[i + 1]

C10_Witness ==
    /\ cls = "SegTree" /\ alg = "cat" /\ n = 3 /\ size = 4
    /\ arr = << <<"b">>, <<"a">>, <<"b">> >>
    /\ d[2] = <<"b", "a">> /\ d[3] = <<"b">>
    /\ d[1] = Take(<<"b", "a", "b">>, MaxStrLen)

----------------------------------------------------------------------------
(* C11  LazySegTree node invariant as the claim states it: whenever a      *)
(* public call has returned, d[k] = op(d[2k], d[2k+1]) for every internal  *)
(* node 1 <= k < size.                                                     *)
C11_Original ==
    cls = "LazySegTree" =>
        \A k \in 1..(size - 1) : d[k] = op(alg, d[2 * k], d[2 * k + 1])

(* C11 as amended: for every algebra whose mapping distributes over op,    *)
(* whenever a public call has returned, every internal node k satisfies    *)
(* d[k] = mapping(lz[k], op(d[2k], d[2k+1])); d[k] = op(d[2k], d[2k+1])    *)
(* holds for the nodes with lz[k] = id only.                               *)
C11_LazyNodeInvariant ==
    (cls = "LazySegTree" /\ alg \in DistributiveAlgs) =>
        \A k \in 1..(size - 1) :
            d[k] = mapping(alg, lz[k], op(alg, d[2 * k], d[2 * k + 1]))

\* after a range apply that covered node 2: the node is mapped, its leaves
\* are not, and the mapping waits in lz[2]
C11_Witness ==
    /\ cls = "LazySegTree" /\ alg = "cat" /\ n = 3
    /\ lz[2] = [c \in Letters |-> "b"]
    /\ d[4] = <<"a">> /\ d[5] = <<"a">>
    /\ d[2] = <<"b", "b">>
    /\ d[2] # op(alg, d[4], d[5])

----------------------------------------------------------------------------
(* C12  Out-of-range arguments are rejected with no mutation, in every     *)
(* reachable state of both trees: set, get and point apply with p outside  *)
(* 0..n-1, prod and range apply with bounds violating 0 <= l <= r <= n,    *)
(* max_right with l outside 0..n and min_left with r outside 0..n fail,    *)
(* and d and lz are exactly as before the call.                            *)
GetCall(c, t, p) ==
    IF c = "SegTree" THEN SegTree_get(t, p) ELSE LazySegTree_get(t, p)

ProdCall(c, t, l, r) ==
    IF c = "SegTree" THEN SegTree_prod(t, l, r) ELSE LazySegTree_prod(t, l, r)

\* the call failed and left the instance as it was
Rejected(res) == ~res.ok /\ res.t = Self

\* the indexes tried: one below 0, the valid ones, and up to two above n - 1
Around == (0 - 1)..(n + 1)

C12_RejectsOutOfRange ==
    /\ \A p \in Around :
          ~(0 <= p /\ p < n) =>
              /\ \A x \in X(alg) : Rejected(SetOf(cls, Self, p, x))
              /\ Rejected(GetCall(cls, Self, p))
              /\ cls = "LazySegTree" =>
                    \A f \in F(alg) : Rejected(LazySegTree_apply(Self, p, <<>>, <<f>>))
    /\ \A l \in Around, r \in Around :
          ~(0 <= l /\ l <= r /\ r <= n) =>
              /\ Rejected(ProdCall(cls, Self, l, r))
              /\ cls = "LazySegTree" =>
                    \A f \in F(alg) : Rejected(LazySegTree_apply(Self, l, <<r>>, <<f>>))
    /\ \A b \in Around :
          ~(0 <= b /\ b <= n) =>
              \A p \in Preds(alg) :
                  /\ Rejected(MaxRightOf(cls, Self, b, p))
                  /\ Rejected(MinLeftOf(cls, Self, b, p))

\* node 2 holds a pending mapping: the valid get(0) pushes it, get(3) and
\* get(-1) are rejected and push nothing, prod(0, 4) stays within the
\* capacity 4 of the tree and is rejected all the same
C12_Witness ==
    /\ cls = "LazySegTree" /\ alg = "cat" /\ n = 3 /\ size = 4
    /\ lz[2] # id_(alg)
    /\ LazySegTree_get(Self, 0).ok /\ LazySegTree_get(Self, 0).t # Self
    /\ Rejected(LazySegTree_get(Self, 3))
    /\ Rejected(LazySegTree_get(Self, 0 - 1))
    /\ Rejected(LazySegTree_prod(Self, 0, 4))
    /\ Rejected(LazySegTree_prod(Self, 2, 1))

----------------------------------------------------------------------------
(* C13  max_right(l, g) and min_left(r, g) with g(e) false fail on both    *)
(* trees, in every reachable state and for every 0 <= l, r <= n, the       *)
(* bounds l = n and r = 0 included, and leave d and lz as they were: no    *)
(* push is made before the failure.                                        *)
C13_RejectsBadPredicate ==
    \A b \in 0..n, p \in Preds(alg) :
        ~g(p, e(alg)) =>
            /\ Rejected(MaxRightOf(cls, Self, b, p))
            /\ Rejected(MinLeftOf(cls, Self, b, p))

\* node 2 holds a pending mapping that max_right(0, .) and min_left(2, .)
\* push when the predicate accepts e; with "at least one letter", false on
\* e, both fail and push nothing, at l = n and r = 0 as well
C13_Witness ==
    /\ cls = "LazySegTree" /\ alg = "cat" /\ n = 3
    /\ lz[2] # id_(alg)
    /\ LET bad  == [kind |-> "lenge", arg |-> 1]
           good == [kind |-> "lenle", arg |-> 0]
       IN  /\ ~g(bad, e(alg)) /\ g(good, e(alg))
           /\ LazySegTree_max_right(Self, 0, good).t # Self
           /\ LazySegTree_min_left(Self, 2, good).t # Self
           /\ Rejected(LazySegTree_max_right(Self, 0, bad))
           /\ Rejected(LazySegTree_min_left(Self, 2, bad))
           /\ Rejected(LazySegTree_max_right(Self, n, bad))
           /\ Rejected(LazySegTree_min_left(Self, 0, bad))

----------------------------------------------------------------------------
(* C14  Read idempotence on LazySegTree: in every reachable state, after   *)
(* any one read call (get, prod, all_prod, max_right, min_left, values,    *)
(* with any arguments) every read call returns what it returned before     *)
(* that read, although the read may have pushed mappings and so changed d  *)
(* and lz; in particular get(0), ..., get(n-1) are unchanged.  The         *)
(* instance a read leaves is again a reachable state, so the same holds    *)
(* for any number of reads in any order.                                   *)

\* every read call on the instance t, with what it returns
Answers(t) ==
    {<<"get", p, LazySegTree_get(t, p).ret>> : p \in 0..(t.n - 1)}
        \cup {<<"prod", l, r, LazySegTree_prod(t, l, r).ret>> : l \in 0..t.n, r \in 0..t.n}
        \cup {<<"all_prod", LazySegTree_all_prod(t).ret>>}
        \cup {<<"values", LazySegTree_values(t).ret>>}
        \cup {<<"max_right", l, p, LazySegTree_max_right(t, l, p).ret>> :
                  l \in 0..t.n, p \in Preds(t.alg)}
        \cup {<<"min_left", r, p, LazySegTree_min_left(t, r, p).ret>> :
                  r \in 0..t.n, p \in Preds(t.alg)}

\* the instances the read calls on t can leave
AfterReads(t) ==
    {LazySegTree_get(t, p).t : p \in 0..(t.n - 1)}
        \cup {LazySegTree_prod(t, l, r).t : l \in 0..t.n, r \in 0..t.n}
        \cup {LazySegTree_all_prod(t).t, LazySegTree_values(t).t}
        \cup {LazySegTree_max_right(t, l, p).t : l \in 0..t.n, p \in Preds(t.alg)}
        \cup {LazySegTree_min_left(t, r, p).t : r \in 0..t.n, p \in Preds(t.alg)}

C14_ReadsAreIdempotent ==
    LET before == Answers(Self)
    IN  \A t2 \in AfterReads(Self) : t2 # Self => Answers(t2) = before

\* node 2 holds a pending mapping: get(0) pushes it and leaves another
\* instance, get(2) pushes nothing; get(1) answers the same before and after
C14_Witness ==
    /\ cls = "LazySegTree" /\ alg = "cat" /\ n = 3
    /\ lz[2] = [c \in Letters |-> IF c = "a" THEN "b" ELSE "a"]
    /\ arr = << <<"b">>, <<"a">>, <<"a">> >>
    /\ LazySegTree_get(Self, 0).t # Self
    /\ LazySegTree_get(Self, 0).t.lz[2] = id_(alg)
    /\ LazySegTree_get(Self, 2).t = Self
    /\ Cardinality(AfterReads(Self)) >= 2
    /\ LazySegTree_get(LazySegTree_get(Self, 0).t, 1).ret = <<"a">>
    /\ LazySegTree_get(Self, 1).ret = <<"a">>

----------------------------------------------------------------------------
(* C15  Padding invariant: in every reachable state of SegTree and of      *)
(* LazySegTree the padding leaves d[size+n], ..., d[2*size-1] hold e; in   *)
(* the lazy tree every internal node whose subtree contains a padding leaf *)
(* has lz = id, so the pushes through it leave the padding at e.           *)
RECURSIVE RightmostLeaf(_)
RightmostLeaf(k) == IF k >= size THEN k ELSE RightmostLeaf(2 * k + 1)

\* the subtree of node k reaches into the padding leaves
CoversPadding(k) == RightmostLeaf(k) >= size + n

C15_Padding ==
    /\ \A i \in (size + n)..(2 * size - 1) : d[i] = e(alg)
    /\ cls = "LazySegTree" =>
          \A k \in 1..(size - 1) : CoversPadding(k) => lz[k] = id_(alg)

\* apply(0, 3, f) went up to the padding: node 2 and leaf 6 are mapped,
\* leaf 7 is padding and node 3 above it holds no mapping
C15_Witness ==
    /\ cls = "LazySegTree" /\ alg = "mod" /\ n = 3 /\ size = 4
    /\ lz[2] = 1 /\ arr = <<1, 1, 1>> /\ d[6] = 1
    /\ CoversPadding(3) /\ CoversPadding(1) /\ ~CoversPadding(2)
    /\ lz[3] = 0 /\ lz[1] = 0
    /\ d[7] = e(alg)

----------------------------------------------------------------------------
(* C16  Empty tree: SegTree and LazySegTree constructed with length 0 or   *)
(* with an empty list exist (size 1, d = [e, e]); on them prod(0, 0)       *)
(* returns e, and set(p, x), get(p) and the point apply at p fail for      *)
(* every p tried, -MaxN..MaxN, and leave the instance unchanged.           *)
EmptyTreeBuilt(c, A, v) ==
    LET t == IF c = "SegTree" THEN SegTree_init(A, v) @@ [lz |-> <<>>]
                              ELSE LazySegTree_init(A, v)
    IN  /\ t.n = 0 /\ t.log = 0 /\ t.size = 1
        /\ t.d = [i \in 0..1 |-> e(A)]
        /\ c = "LazySegTree" => t.lz = [i \in 0..0 |-> id_(A)]

C16_EmptyTree ==
    /\ \A c \in {"SegTree", "LazySegTree"}, A \in Algs :
          EmptyTreeBuilt(c, A, [int |-> 0]) /\ EmptyTreeBuilt(c, A, [list |-> <<>>])
    /\ n = 0 =>
          /\ ProdCall(cls, Self, 0, 0).ok
          /\ ProdCall(cls, Self, 0, 0).ret = e(alg)
          /\ ProdCall(cls, Self, 0, 0).t = Self
          /\ \A p \in (0 - MaxN)..MaxN :
                /\ \A x \in X(alg) : Rejected(SetOf(cls, Self, p, x))
                /\ Rejected(GetCall(cls, Self, p))
                /\ cls = "LazySegTree" =>
                      \A f \in F(alg) : Rejected(LazySegTree_apply(Self, p, <<>>, <<f>>))

\* the empty plain tree: one unused slot and one padding leaf, both e
C16_Witness ==
    /\ cls = "SegTree" /\ alg = "mod" /\ n = 0 /\ size = 1 /\ log = 0
    /\ arr = <<>>
    /\ d = [i \in 0..1 |-> 0]
    /\ SegTree_prod(Self, 0, 0).ret = 0
    /\ ~SegTree_get(Self, 0).ok
    /\ ~SegTree_set(Self, 0, 1).ok

----------------------------------------------------------------------------
\* C17: _ceil_pow2(n) terminates for every integer n; what it returns is the
\* smallest non-negative x with 2^x >= n, which is 0 for every n <= 1, and
\* it is the value the closed form ceil_pow2 used by the constructors gives;
\* the size 2^x is at least max(n, 1) and, for n >= 2, less than 2n.
CeilReturned == bit.pc = "return"

CeilResultRight ==
    CeilReturned =>
        LET x == bit.x
            m == bit.n
        IN  /\ x >= 0
            /\ 2^x >= m
            /\ \A y \in 0..(x - 1) : 2^y < m
            /\ (m <= 1 => x = 0)
            /\ x = ceil_pow2(m)
            /\ 2^x >= (IF m > 1 THEN m ELSE 1)
            /\ (m >= 2 => 2^x < 2 * m)

C17_CeilPow2 == [](CeilResultRight) /\ <>(CeilReturned)

C17_Witness ==
    /\ CeilReturned
    /\ bit.n = 5
    /\ bit.x = 3

----------------------------------------------------------------------------
\* C18: whatever merge, same, leader, size and groups calls were made on
\* DSU(n), same(a, b) is true exactly when a and b are connected by the edges
\* merged so far (reflexive-transitive closure), leader(a) = leader(b) exactly
\* then, and the instance leader(a) leaves behind answers every same(b, c) as
\* the instance before the call did.

\* the vertices reachable from the set R along the edges E
RECURSIVE Reach(_, _)
Reach(E, R) ==
    LET R2 == R \cup UNION {uv \in E : uv \cap R # {}}
    IN  IF R2 = R THEN R ELSE Reach(E, R2)

\* every same(a, b) of the instance t, as the set of connected pairs
DsuSames(t) ==
    {ab \in (0..(t.n - 1)) \X (0..(t.n - 1)) : DSU_same(t, ab[1], ab[2]).ret}

C18_Connectivity ==
    LET t == dsu.self
        V == 0..(t.n - 1)
        comp == [a \in V |-> Reach(dsu.edges, {a})]
        lead == [a \in V |-> DSU_leader(t, a)]
        sames == DsuSames(t)
    IN  /\ \A a \in V, b \in V :
              /\ (<<a, b>> \in sames) = (b \in comp[a])
              /\ (lead[a].ret = lead[b].ret) = (b \in comp[a])
        /\ \A a \in V : DsuSames(lead[a].t) = sames

C18_Witness ==
    LET t == dsu.self
    IN  /\ t.n = 4
        /\ dsu.edges = {Edge(0, 1), Edge(2, 3), Edge(1, 3)}
        /\ DSU_leader(t, 3).t # t
        /\ DSU_same(t, 0, 3).ret

----------------------------------------------------------------------------
\* C19: after any add calls on FenwickTree(n), sum(l, r) for 0 <= l <= r <= n
\* is the total of the amounts added at the positions p with l <= p < r, which
\* is 0 when l = r; after add(1, 3) and add(3, 5) on length 5, sum(1, 4) is 8
\* and the instance prints as [0, 3, 0, 5, 0].

\* the total of the amounts x of the calls add(p, x) with l <= p < r
RECURSIVE AddedIn(_, _, _)
AddedIn(adds, l, r) ==
    IF adds = <<>>
    THEN 0
    ELSE (IF l <= Head(adds)[1] /\ Head(adds)[1] < r THEN Head(adds)[2] ELSE 0)
             + AddedIn(Tail(adds), l, r)

DocAdds == <<<<1, 3>>, <<3, 5>>>>

C19_SumIsTotalAdded ==
    LET t == fenwick.self
    IN  /\ \A l \in 0..t.n, r \in 0..t.n :
              l <= r =>
                  /\ FenwickTree_sum(t, l, r).ok
                  /\ FenwickTree_sum(t, l, r).ret = AddedIn(fenwick.adds, l, r)
                  /\ (l = r => FenwickTree_sum(t, l, r).ret = 0)
        /\ (t.n = 5 /\ fenwick.adds = DocAdds) =>
              /\ FenwickTree_sum(t, 1, 4).ret = 8
              /\ FenwickTree_str(t) = <<0, 3, 0, 5, 0>>

C19_Witness ==
    /\ fenwick.self.n = 5
    /\ fenwick.adds = DocAdds
    /\ fenwick.ret = <<8>>

----------------------------------------------------------------------------
\* C20: suffix_array(s) returns a permutation sa of 0..n-1 whose suffixes
\* s[sa[0]:], s[sa[1]:], ... are in strictly increasing order, the array the
\* naive sort gives, whatever the length of s and so whichever sort the
\* length selects; suffix_array("abca") is [3, 0, 1, 2].

\* the list _sa_is is called with: the code points of a str, the numbers of a
\* list (the ranks suffix_array computes are in the same order)
Compared(input) ==
    LET len == Len(input.items)
    IN  IF input.kind = "str"
        THEN [i \in 0..(len - 1) |-> ord[input.items[i + 1]]]
        ELSE PyList(input.items)

IsSuffixArray(s, len, sa) ==
    /\ DOMAIN sa = 0..(len - 1)
    /\ \A i \in 0..(len - 1) : \E j \in 0..(len - 1) : sa[j] = i
    /\ \A j \in 0..(len - 2) : SuffixLess(s, len, sa[j], sa[j + 1])

\* the caller kept the precondition of upper
UpperKept(input) ==
    input.upper = <<>> \/ \A i \in 1..Len(input.items) :
                              0 <= input.items[i] /\ input.items[i] <= input.upper[1]

Abca == [kind |-> "str", items |-> <<"a", "b", "c", "a">>, upper |-> <<>>]

C20_Original ==
    (str.pc = "return" /\ UpperKept(str.input)) =>
        /\ str.ok
        /\ IsSuffixArray(Compared(str.input), StrLen, str.ret)
        /\ str.ret = sa_naive(Compared(str.input), StrLen)

\* the call reaches the lists of SA-IS that have upper + 1 = 256 elements with
\* a code point above 255
BeyondLatin1(input) ==
    /\ input.kind = "str"
    /\ Len(input.items) >= threshold_doubling
    /\ \E i \in 1..Len(input.items) : ord[input.items[i]] > 255

\* C20 for the inputs that stay within the lists of SA-IS: the claim holds for
\* them, in every branch; the others raise IndexError
C20_Latin1 ==
    (str.pc = "return" /\ UpperKept(str.input)) =>
        IF BeyondLatin1(str.input)
        THEN ~str.ok /\ str.ret = IndexError
        ELSE /\ str.ok
             /\ IsSuffixArray(Compared(str.input), StrLen, str.ret)
             /\ str.ret = sa_naive(Compared(str.input), StrLen)
             /\ (str.input = Abca => str.ret = PyList(<<3, 0, 1, 2>>))

C20_Witness ==
    /\ str.pc = "return"
    /\ BeyondLatin1(str.input)
    /\ ~str.ok

----------------------------------------------------------------------------
\* C21: in every state reached by merge, same, leader, size and groups calls
\* on DSU(n), every root r holds minus the number of vertices whose leader is
\* r, every other vertex holds a parent index in 0..n-1, following the parent
\* pointers from any vertex ends at a root within n steps (no cycle), the
\* sizes the roots hold sum to n, and size(a) is the number of vertices
\* connected to a by the merged edges.

\* the root the parent pointers lead to from v in at most k steps, -1 when
\* there is none
RECURSIVE DsuRootOf(_, _, _)
DsuRootOf(P, v, k) ==
    IF P[v] < 0 THEN v
    ELSE IF k = 0 \/ P[v] \notin DOMAIN P THEN 0 - 1
    ELSE DsuRootOf(P, P[v], k - 1)

RECURSIVE DsuSum(_, _)
DsuSum(P, R) ==
    IF R = {} THEN 0
    ELSE LET r == CHOOSE r \in R : TRUE
         IN  (0 - P[r]) + DsuSum(P, R \ {r})

C21_SizeInvariant ==
    LET t == dsu.self
        P == t.parent_or_size
        V == 0..(t.n - 1)
        roots == {r \in V : P[r] < 0}
        root == [v \in V |-> DsuRootOf(P, v, t.n)]
    IN  /\ DOMAIN P = V
        /\ \A v \in V \ roots : P[v] \in V
        /\ \A v \in V : root[v] \in roots /\ DSU_leader(t, v).ret = root[v]
        /\ \A r \in roots : P[r] = 0 - Cardinality({v \in V : root[v] = r})
        /\ DsuSum(P, roots) = t.n
        /\ \A a \in V : LET r == DSU_size(t, a)
                        IN  r.ok /\ r.ret = Cardinality(Reach(dsu.edges, {a}))

\* two components of two vertices merged into one of four: a chain of two
\* parent pointers under the root
C21_Witness ==
    LET t == dsu.self
        P == t.parent_or_size
    IN  /\ t.n = 4
        /\ \E r \in 0..3, v \in 0..3, w \in 0..3 :
              /\ P[r] = 0 - 4 /\ P[v] = r /\ P[w] = v
              /\ DSU_size(t, w).ret = 4

----------------------------------------------------------------------------
\* C22: whenever merge(a, b) is called with valid a and b, the value it
\* returns is what leader(a) and leader(b) both return right after the call;
\* if a and b were connected already it is the leader they had, and every
\* same(c, d) and every size(c) answers as before the call; if they were not,
\* it is the former leader of the larger component, and the former leader of
\* a when both had the same size.

\* what merge(a, b) has to return and leave behind on the instance t
MergeContract(t, a, b) ==
    LET r == DSU_merge(t, a, b)
        V == 0..(t.n - 1)
        la == DSU_leader(t, a).ret
        lb == DSU_leader(t, b).ret
    IN  /\ r.ok
        /\ DSU_leader(r.t, a).ret = r.ret
        /\ DSU_leader(r.t, b).ret = r.ret
        /\ la = lb =>
              /\ r.ret = la
              /\ DsuSames(r.t) = DsuSames(t)
              /\ \A v \in V : DSU_size(r.t, v).ret = DSU_size(t, v).ret
        /\ la # lb =>
              r.ret = IF DSU_size(t, a).ret >= DSU_size(t, b).ret THEN la ELSE lb

C22_MergeReturnsLeader ==
    [][\A a \in 0..(dsu.self.n - 1), b \in 0..(dsu.self.n - 1) :
           dsu' = [self |-> DSU_merge(dsu.self, a, b).t,
                   edges |-> dsu.edges \cup {Edge(a, b)}]
           => MergeContract(dsu.self, a, b)]_vars

\* after merge(0, 1) and merge(2, 1): the smaller component of 2 went under
\* the leader 0 of the larger one
C22_Witness ==
    /\ dsu.self.n = 3
    /\ dsu.edges = {Edge(0, 1), Edge(2, 1)}
    /\ dsu.self.parent_or_size = [i \in 0..2 |-> IF i = 0 THEN 0 - 3 ELSE 0]

----------------------------------------------------------------------------
(* atcoder/string.py, z_algorithm.  The call is                            *)
(* [fn, input, s, n, z, j, i, pc, ret]: input is [kind, items] as the      *)
(* caller passes it, s the list of numbers the function works on, pc the   *)
(* place the call has reached.                                             *)

\* if isinstance(s, str): s = [ord(c) for c in s]
ords(input) ==
    IF input.kind = "str" THEN [k \in 0..(Len(input.items) - 1) |-> ord[input.items[k + 1]]]
    ELSE PyList(input.items)

\* mutant: the value z[i] starts from is not capped by z[i - j]
z_algorithm_start_uncapped(z, j, i) ==
    IF j + z[j] <= i THEN 0 ELSE j + z[j] - i

\* 0 if j + z[j] <= i else min(j + z[j] - i, z[i - j])
z_algorithm_start(z, j, i) ==
    IF j + z[j] <= i THEN 0 ELSE Min2(j + z[j] - i, z[i - j])

\* while i + z[i] < n and s[z[i]] == s[i + z[i]]: z[i] += 1
RECURSIVE z_algorithm_while(_, _, _, _)
z_algorithm_while(s, len, i, zi) ==
    IF i + zi < len /\ s[zi] = s[i + zi]
    THEN z_algorithm_while(s, len, i, zi + 1)
    ELSE zi

TextChars == {"a", "b", "c"}

TextItems == {0, 2}

TextInputs ==
    {[kind |-> "str", items |-> w] : w \in SeqsUpTo(TextChars, MaxText)}
    \cup {[kind |-> "list", items |-> w] : w \in SeqsUpTo(TextItems, MaxText)}

ZInit ==
    /\ TreeIdle
    /\ bit = None /\ dsu = None /\ fenwick = None /\ math = None
    /\ \E input \in TextInputs :
          str = [fn |-> "z_algorithm", input |-> input, s |-> None, n |-> 0,
                 z |-> None, j |-> 0, i |-> 0, pc |-> "call", ret |-> None]

ZBecomes(call) == str' = call /\ UNCHANGED <<treeVars, bit, dsu, fenwick, math>>

\* lines 277-282: n == 0, return []
ZEmpty ==
    /\ str.pc = "call" /\ Len(str.input.items) = 0
    /\ ZBecomes([str EXCEPT !.s = ords(str.input), !.pc = "return",
                            !.ret = PyList(<<>>)])

\* lines 277-286: z = [0] * n; j = 0; the loop starts at i = 1
ZEnter ==
    /\ str.pc = "call" /\ Len(str.input.items) # 0
    /\ ZBecomes([str EXCEPT !.s = ords(str.input), !.n = Len(str.input.items),
                            !.z = Fill(0, Len(str.input.items)), !.j = 0, !.i = 1,
                            !.pc = "for"])

\* lines 287-291: one iteration of the loop over range(1, n)
ZFor ==
    /\ str.pc = "for" /\ str.i < str.n
    /\ LET zi == z_algorithm_while(str.s, str.n, str.i,
                                   z_algorithm_start(str.z, str.j, str.i))
       IN  ZBecomes([str EXCEPT !.z[str.i] = zi,
                                !.j = IF str.j + str.z[str.j] < str.i + zi
                                      THEN str.i ELSE str.j,
                                !.i = str.i + 1])

\* lines 292-293: z[0] = n; return z
ZReturn ==
    /\ str.pc = "for" /\ str.i >= str.n
    /\ ZBecomes([str EXCEPT !.z[0] = str.n, !.ret = [str.z EXCEPT ![0] = str.n],
                            !.pc = "return"])

ZNext == ZEmpty \/ ZEnter \/ ZFor \/ ZReturn

ZSpec == ZInit /\ [][ZNext]_vars

----------------------------------------------------------------------------
\* C23: z_algorithm(s) returns [] for the empty s, and otherwise a list z of
\* n = len(s) elements with z[0] = n and, for every i in 1..n-1, z[i] the
\* length of the longest common prefix of s and s[i:];
\* z_algorithm("ababac") is [6, 0, 3, 0, 1, 0].

\* the length of the longest common prefix of items[a:] and items[b:], a and b
\* counted from 0
CommonPrefix(items, a, b) ==
    LET len == Len(items)
        far == len - (IF a > b THEN a ELSE b)
        diffs == {k \in 0..(far - 1) : items[a + k + 1] # items[b + k + 1]}
    IN  IF diffs = {} THEN far ELSE SetMin(diffs)

Ababac == <<"a", "b", "a", "b", "a", "c">>

C23_ZAlgorithm ==
    str.pc = "return" =>
        LET items == str.input.items
            len == Len(items)
        IN  /\ DOMAIN str.ret = 0..(len - 1)
            /\ \A k \in 0..(len - 1) : str.ret[k] = CommonPrefix(items, 0, k)
            /\ (str.input.kind = "str" /\ items = Ababac) =>
                   str.ret = PyList(<<6, 0, 3, 0, 1, 0>>)

C23_Witness ==
    /\ str.pc = "return"
    /\ str.input.kind = "str" /\ str.input.items = Ababac
    /\ str.ret = PyList(<<6, 0, 3, 0, 1, 0>>)

----------------------------------------------------------------------------
(* atcoder/string.py, lcp_array.  The call is                              *)
(* [fn, input, sa, s, n, rnk, lcp, h, i, pc, ok, ret]; the caller passes   *)
(* the suffix array suffix_array gave for the same input.                  *)

\* for i in range(n): rnk[sa[i]] = i
RECURSIVE lcp_array_rnk(_, _, _, _)
lcp_array_rnk(sa, len, i, rnk) ==
    IF i >= len THEN rnk
    ELSE lcp_array_rnk(sa, len, i + 1, [rnk EXCEPT ![sa[i]] = i])

\* mutant: h is carried over to the next suffix as it is
lcp_array_carry_all(h) == h

\* if h > 0: h -= 1
lcp_array_carry(h) == IF h > 0 THEN h - 1 ELSE h

\* while j + h < n and i + h < n: if s[j + h] != s[i + h]: break
\*                                h += 1
RECURSIVE lcp_array_while(_, _, _, _, _)
lcp_array_while(s, len, i, j, h) ==
    IF j + h < len /\ i + h < len /\ s[j + h] = s[i + h]
    THEN lcp_array_while(s, len, i, j, h + 1)
    ELSE h

LcpInit ==
    /\ TreeIdle
    /\ bit = None /\ dsu = None /\ fenwick = None /\ math = None
    /\ \E input \in TextInputs :
          str = [fn |-> "lcp_array", input |-> input,
                 sa |-> suffix_array([kind |-> input.kind, items |-> input.items,
                                      upper |-> <<>>]).ret,
                 s |-> None, n |-> 0, rnk |-> None, lcp |-> None, h |-> 0, i |-> 0,
                 pc |-> "call", ok |-> TRUE, ret |-> None]

\* lines 231-235: assert n >= 1 fails
LcpEmpty ==
    /\ str.pc = "call" /\ Len(str.input.items) < 1
    /\ ZBecomes([str EXCEPT !.s = ords(str.input), !.pc = "return", !.ok = FALSE,
                            !.ret = "AssertionError"])

\* lines 231-243: rnk, lcp = [0] * (n - 1), h = 0; the loop starts at i = 0
LcpEnter ==
    /\ str.pc = "call" /\ Len(str.input.items) >= 1
    /\ ZBecomes([str EXCEPT !.s = ords(str.input), !.n = Len(str.input.items),
                            !.rnk = lcp_array_rnk(str.sa, Len(str.input.items), 0,
                                                  Fill(0, Len(str.input.items))),
                            !.lcp = Fill(0, Len(str.input.items) - 1),
                            !.h = 0, !.i = 0, !.pc = "for"])

\* lines 244-247: one iteration of the loop that ends at continue
LcpFirst ==
    /\ str.pc = "for" /\ str.i < str.n /\ str.rnk[str.i] = 0
    /\ ZBecomes([str EXCEPT !.h = lcp_array_carry(str.h), !.i = str.i + 1])

\* lines 244-253: one iteration of the loop that writes lcp[rnk[i] - 1]
LcpFor ==
    /\ str.pc = "for" /\ str.i < str.n /\ str.rnk[str.i] # 0
    /\ LET h2 == lcp_array_while(str.s, str.n, str.i, str.sa[str.rnk[str.i] - 1],
                                 lcp_array_carry(str.h))
       IN  ZBecomes([str EXCEPT !.lcp[str.rnk[str.i] - 1] = h2, !.h = h2,
                                !.i = str.i + 1])

\* line 255: return lcp
LcpReturn ==
    /\ str.pc = "for" /\ str.i >= str.n
    /\ ZBecomes([str EXCEPT !.ret = str.lcp, !.pc = "return"])

LcpNext == LcpEmpty \/ LcpEnter \/ LcpFirst \/ LcpFor \/ LcpReturn

LcpSpec == LcpInit /\ [][LcpNext]_vars

----------------------------------------------------------------------------
\* C24: lcp_array(s, sa), called with n = len(s) >= 1 and sa the suffix array
\* of s, returns a list of n - 1 elements whose i-th element is the length of
\* the longest common prefix of s[sa[i]:] and s[sa[i + 1]:]; called with the
\* empty s it fails its assertion; for "ababac" with sa = [0, 2, 4, 1, 3, 5]
\* it returns [3, 1, 0, 2, 0].

C24_LcpArray ==
    str.pc = "return" =>
        LET items == str.input.items
            len == Len(items)
        IN  IF len = 0 THEN ~str.ok /\ str.ret = "AssertionError"
            ELSE /\ IsSuffixArray(ords(str.input), len, str.sa)
                 /\ str.ok
                 /\ DOMAIN str.ret = 0..(len - 2)
                 /\ \A k \in 0..(len - 2) :
                        str.ret[k] = CommonPrefix(items, str.sa[k], str.sa[k + 1])
                 /\ (str.input.kind = "str" /\ items = Ababac) =>
                        /\ str.sa = PyList(<<0, 2, 4, 1, 3, 5>>)
                        /\ str.ret = PyList(<<3, 1, 0, 2, 0>>)

C24_Witness ==
    /\ str.pc = "return" /\ str.ok
    /\ str.input.kind = "str" /\ str.input.items = Ababac
    /\ str.sa = PyList(<<0, 2, 4, 1, 3, 5>>)
    /\ str.ret = PyList(<<3, 1, 0, 2, 0>>)

----------------------------------------------------------------------------
(* atcoder/_math.py, _inv_gcd.  The call is [fn, args, a, b, s, t, m0, m1, *)
(* pc, ret]: args the arguments the caller passed, the rest the locals;    *)
(* ret is <<g, x>>.                                                        *)
(* Python's % with a positive divisor gives a result in 0..b-1 and //      *)
(* rounds down, as % and \div do; the integers are unbounded.              *)

\* mutant: a negative m0 is returned as it is
inv_gcd_result_signed(m0, b, s) == m0

\* if m0 < 0: m0 += b // s
inv_gcd_result(m0, b, s) == IF m0 < 0 THEN m0 + (b \div s) ELSE m0

InvInit ==
    /\ TreeIdle
    /\ bit = None /\ dsu = None /\ fenwick = None /\ str = None
    /\ \E a \in (0 - MaxArg)..MaxArg, b \in 1..MaxMod :
          math = [fn |-> "_inv_gcd", args |-> <<a, b>>, a |-> a, b |-> b, s |-> 0, t |-> 0,
                  m0 |-> 0, m1 |-> 0, pc |-> "call", ret |-> <<>>]

MathBecomes(call) == math' = call /\ UNCHANGED <<treeVars, bit, dsu, fenwick, str>>

\* a %= b; if a == 0: return (b, 0)
InvMultiple ==
    /\ math.pc = "call" /\ math.a % math.b = 0
    /\ MathBecomes([math EXCEPT !.a = 0, !.pc = "return", !.ret = <<math.b, 0>>])

\* a %= b; s = b; t = a; m0 = 0; m1 = 1
InvEnter ==
    /\ math.pc = "call" /\ math.a % math.b # 0
    /\ MathBecomes([math EXCEPT !.a = math.a % math.b, !.s = math.b,
                                !.t = math.a % math.b, !.m0 = 0, !.m1 = 1,
                                !.pc = "while"])

\* while t: u = s // t; s -= t * u; m0 -= m1 * u; s, t = t, s; m0, m1 = m1, m0
InvWhile ==
    /\ math.pc = "while" /\ math.t # 0
    /\ LET u == math.s \div math.t
       IN  MathBecomes([math EXCEPT !.s = math.t, !.t = math.s - math.t * u,
                                    !.m0 = math.m1, !.m1 = math.m0 - math.m1 * u])

\* if m0 < 0: m0 += b // s;  return (s, m0)
InvReturn ==
    /\ math.pc = "while" /\ math.t = 0
    /\ MathBecomes([math EXCEPT !.m0 = inv_gcd_result(math.m0, math.b, math.s),
                                !.ret = <<math.s, inv_gcd_result(math.m0, math.b, math.s)>>,
                                !.pc = "return"])

InvNext == InvMultiple \/ InvEnter \/ InvWhile \/ InvReturn

InvSpec == InvInit /\ [][InvNext]_vars

\* a running call is not suspended for ever
InvFairSpec == InvSpec /\ WF_vars(InvNext)

----------------------------------------------------------------------------
\* C25: _inv_gcd(a, b), for any integer a and any b >= 1, terminates and
\* returns (g, x) with g the greatest common divisor of a mod b and b (b itself
\* when a is a multiple of b), 0 <= x < b/g, and a * x congruent to g modulo
\* b; _inv_gcd(10, 6) is (2, 2) and _inv_gcd(3, 7) is (1, 5).

Divides(k, x) == x % k = 0

\* the greatest common divisor of x >= 0 and y >= 1
Gcd(x, y) ==
    CHOOSE k \in 1..y :
        /\ Divides(k, x) /\ Divides(k, y)
        /\ \A j \in (k + 1)..y : ~(Divides(j, x) /\ Divides(j, y))

InvGcdRight ==
    math.pc = "return" =>
        LET a == math.args[1]
            b == math.args[2]
            gx == math.ret
        IN  /\ gx[1] = Gcd(a % b, b)
            /\ (a % b = 0 => gx[1] = b)
            /\ 0 <= gx[2] /\ gx[2] * gx[1] < b
            /\ (a * gx[2] - gx[1]) % b = 0
            /\ (a = 10 /\ b = 6 => gx = <<2, 2>>)
            /\ (a = 3 /\ b = 7 => gx = <<1, 5>>)

C25_InvGcd == [](InvGcdRight) /\ <>(math.pc = "return")

\* the call _inv_gcd(3, 7) has returned (1, 5): m0 was -2 before line 104
C25_Witness ==
    /\ math.pc = "return" /\ math.args = <<3, 7>>
    /\ math.ret = <<1, 5>>

----------------------------------------------------------------------------
(* Python's integers.  They have no width, and _is_prime is meant for      *)
(* numbers beyond the integers of the model checker, so a non-negative     *)
(* Python integer is the sequence of its digits in base Base, lowest       *)
(* first, without leading zeros: 0 is <<>>.                                *)

Root == 2^7

Base == Root * Root

\* the number of binary digits of a digit
Width == Cardinality({k \in 0..30 : 2^k < Base})

\* the Python integer k, for 0 <= k
RECURSIVE IntOf(_)
IntOf(k) == IF k = 0 THEN <<>> ELSE <<k % Base>> \o IntOf(k \div Base)

RECURSIVE IntTrim(_)
IntTrim(x) ==
    IF x # <<>> /\ x[Len(x)] = 0 THEN IntTrim(SubSeq(x, 1, Len(x) - 1)) ELSE x

Digit(x, i) == IF i <= Len(x) THEN x[i] ELSE 0

RECURSIVE IntAddFrom(_, _, _, _)
IntAddFrom(x, y, i, carry) ==
    IF i > Len(x) /\ i > Len(y)
    THEN IF carry = 0 THEN <<>> ELSE <<carry>>
    ELSE <<(Digit(x, i) + Digit(y, i) + carry) % Base>>
         \o IntAddFrom(x, y, i + 1, (Digit(x, i) + Digit(y, i) + carry) \div Base)

\* x + y
IntAdd(x, y) == IntAddFrom(x, y, 1, 0)

RECURSIVE IntSubFrom(_, _, _, _)
IntSubFrom(x, y, i, borrow) ==
    IF i > Len(x) THEN <<>>
    ELSE <<(Digit(x, i) - Digit(y, i) - borrow) % Base>>
         \o IntSubFrom(x, y, i + 1,
                       IF Digit(x, i) - Digit(y, i) - borrow < 0 THEN 1 ELSE 0)

\* x - y, for y <= x
IntSub(x, y) == IntTrim(IntSubFrom(x, y, 1, 0))

SetMax(K) == CHOOSE k \in K : \A j \in K : j <= k

\* x < y
IntLess(x, y) ==
    IF Len(x) # Len(y) THEN Len(x) < Len(y)
    ELSE LET D == {i \in 1..Len(x) : x[i] # y[i]}
         IN  D # {} /\ x[SetMax(D)] < y[SetMax(D)]

\* x * k for a digit k, from digit i of x on
RECURSIVE IntScaleFrom(_, _, _, _)
IntScaleFrom(x, k, i, carry) ==
    IF i > Len(x)
    THEN IF carry = 0 THEN <<>> ELSE <<carry>>
    ELSE <<(x[i] * k + carry) % Base>>
         \o IntScaleFrom(x, k, i + 1, (x[i] * k + carry) \div Base)

RECURSIVE IntMulFrom(_, _, _)
IntMulFrom(x, y, i) ==
    IF i > Len(y) THEN <<>>
    ELSE IntAdd(IntScaleFrom(x, y[i], 1, 0), <<0>> \o IntMulFrom(x, y, i + 1))

\* x * y
IntMul(x, y) == IntTrim(IntMulFrom(x, y, 1))

\* x // 2  and  x << 1
IntHalf(x) ==
    IntTrim([i \in 1..Len(x) |-> (x[i] \div 2) + (Digit(x, i + 1) % 2) * (Base \div 2)])

IntDouble(x) == IntAdd(x, x)

\* x % 2 == 0
IntEven(x) == x = <<>> \/ x[1] % 2 = 0

\* r - m if m <= r, for r < 2 * m
IntReduce(r, m) == IF IntLess(r, m) THEN r ELSE IntSub(r, m)

\* long division in base 2: the binary digits k, k - 1, ... 0 of the digit v
\* are brought down to the remainder r
RECURSIVE IntModDigit(_, _, _, _)
IntModDigit(r, v, k, m) ==
    IF k < 0 \/ ~Done(r) THEN r
    ELSE IntModDigit(IntReduce(IntAdd(IntDouble(r), IntOf((v \div 2^k) % 2)), m),
                     v, k - 1, m)

RECURSIVE IntModFrom(_, _, _, _)
IntModFrom(x, i, r, m) ==
    IF i = 0 \/ ~Done(r) THEN r
    ELSE IntModFrom(x, i - 1, IntModDigit(r, x[i], Width - 1, m), m)

\* x % m, for 0 < m
IntMod(x, m) == IntModFrom(x, Len(x), <<>>, m)

\* square and multiply: acc is squared, and multiplied by a if the binary
\* digit is 1
IntPowBit(sq, a, low, m) == IF low = 1 THEN IntMod(IntMul(sq, a), m) ELSE sq

RECURSIVE IntPowDigit(_, _, _, _, _)
IntPowDigit(acc, a, v, k, m) ==
    IF k < 0 \/ ~Done(acc) THEN acc
    ELSE IntPowDigit(IntPowBit(IntMod(IntMul(acc, acc), m), a, (v \div 2^k) % 2, m),
                     a, v, k - 1, m)

RECURSIVE IntPowFrom(_, _, _, _, _)
IntPowFrom(a, t, i, acc, m) ==
    IF i = 0 \/ ~Done(acc) THEN acc
    ELSE IntPowFrom(a, t, i - 1, IntPowDigit(acc, a, t[i], Width - 1, m), m)

\* pow(a, t, m), for 0 <= t and 0 < m
IntPow(a, t, m) == IntPowFrom(IntMod(a, m), t, Len(t), IntMod(IntOf(1), m), m)

\* the Python integer with the decimal digits ds, highest first
RECURSIVE IntOfDecimalFrom(_, _, _)
IntOfDecimalFrom(ds, i, acc) ==
    IF i > Len(ds) \/ ~Done(acc) THEN acc
    ELSE IntOfDecimalFrom(ds, i + 1, IntAdd(IntMul(acc, IntOf(10)), IntOf(ds[i])))

IntOfDecimal(ds) == IntOfDecimalFrom(ds, 1, <<>>)

----------------------------------------------------------------------------
(* atcoder/_math.py, _is_prime.  The call is [fn, n, d, k, t, y, pc, ret]: *)
(* n is the argument, [neg, abs] with abs a Python integer as above; d, t  *)
(* and y are the locals, k counts the bases tried: a is is_prime_bases[k]. *)

\* mutant: the only base is 2
is_prime_bases_two == <<2>>

\* for a in (2, 7, 61)
is_prime_bases == <<2, 7, 61>>

\* while d % 2 == 0: d //= 2
RECURSIVE is_prime_odd_part(_)
is_prime_odd_part(dd) == IF IntEven(dd) THEN is_prime_odd_part(IntHalf(dd)) ELSE dd

\* while t != n - 1 and y != 1 and y != n - 1
is_prime_while(call) ==
    /\ call.t # IntSub(call.n.abs, IntOf(1))
    /\ call.y # IntOf(1)
    /\ call.y # IntSub(call.n.abs, IntOf(1))

\* if y != n - 1 and t % 2 == 0
is_prime_fails(call) ==
    call.y # IntSub(call.n.abs, IntOf(1)) /\ IntEven(call.t)

\* n <= 1
is_prime_small(nn) == nn.neg \/ IntLess(nn.abs, IntOf(2))

\* n == 2 or n == 7 or n == 61
is_prime_listed(nn) == nn.abs \in {IntOf(2), IntOf(7), IntOf(61)}

LargeInputs ==
    {IntOf(2047), IntOf(314821), IntOf(2147483647),
     IntOfDecimal(<<3, 2, 1, 5, 0, 3, 1, 7, 5, 1>>),
     IntOfDecimal(<<4, 7, 5, 9, 1, 2, 3, 1, 4, 1>>),
     IntOfDecimal(<<4, 7, 5, 9, 1, 2, 3, 1, 5, 1>>)}

PrimeInputs ==
    {[neg |-> k < 0, abs |-> IntOf(IF k < 0 THEN 0 - k ELSE k)] : k \in (0 - 3)..MaxPrime}
    \cup {[neg |-> FALSE, abs |-> x] : x \in LargeInputs}

PrimeInit ==
    /\ TreeIdle
    /\ bit = None /\ dsu = None /\ fenwick = None /\ str = None
    /\ \E nn \in PrimeInputs :
          math = [fn |-> "_is_prime", n |-> nn, d |-> <<>>, k |-> 0, t |-> <<>>,
                  y |-> <<>>, pc |-> "call", ret |-> None]

PrimeReturns(v) == MathBecomes([math EXCEPT !.pc = "return", !.ret = v])

\* t = d; y = pow(a, t, n)  for the base a = is_prime_bases[k]
PrimeTries(dd, k) ==
    MathBecomes([math EXCEPT !.d = dd, !.k = k, !.t = dd,
                             !.y = IntPow(IntOf(is_prime_bases[k]), dd, math.n.abs),
                             !.pc = "while"])

\* if n <= 1: return False
PrimeSmall == math.pc = "call" /\ is_prime_small(math.n) /\ PrimeReturns(FALSE)

\* if n == 2 or n == 7 or n == 61: return True
PrimeListed ==
    /\ math.pc = "call" /\ ~is_prime_small(math.n) /\ is_prime_listed(math.n)
    /\ PrimeReturns(TRUE)

\* if n % 2 == 0: return False
PrimeEven ==
    /\ math.pc = "call" /\ ~is_prime_small(math.n) /\ ~is_prime_listed(math.n)
    /\ IntEven(math.n.abs)
    /\ PrimeReturns(FALSE)

\* lines 38-44: d, and t and y for the first base
PrimeEnter ==
    /\ math.pc = "call" /\ ~is_prime_small(math.n) /\ ~is_prime_listed(math.n)
    /\ ~IntEven(math.n.abs)
    /\ PrimeTries(is_prime_odd_part(IntSub(math.n.abs, IntOf(1))), 1)

\* y = y * y % n; t <<= 1
PrimeSquare ==
    /\ math.pc = "while" /\ is_prime_while(math)
    /\ MathBecomes([math EXCEPT !.y = IntMod(IntMul(math.y, math.y), math.n.abs),
                                !.t = IntDouble(math.t)])

\* if y != n - 1 and t % 2 == 0: return False
PrimeComposite ==
    /\ math.pc = "while" /\ ~is_prime_while(math) /\ is_prime_fails(math)
    /\ PrimeReturns(FALSE)

\* the next a of the for loop
PrimeNextBase ==
    /\ math.pc = "while" /\ ~is_prime_while(math) /\ ~is_prime_fails(math)
    /\ math.k < Len(is_prime_bases)
    /\ PrimeTries(math.d, math.k + 1)

\* return True
PrimeProbable ==
    /\ math.pc = "while" /\ ~is_prime_while(math) /\ ~is_prime_fails(math)
    /\ math.k >= Len(is_prime_bases)
    /\ PrimeReturns(TRUE)

PrimeNext ==
    \/ PrimeSmall \/ PrimeListed \/ PrimeEven \/ PrimeEnter
    \/ PrimeSquare \/ PrimeComposite \/ PrimeNextBase \/ PrimeProbable

PrimeSpec == PrimeInit /\ [][PrimeNext]_vars

----------------------------------------------------------------------------
\* C26: _is_prime(n) returns True exactly when n is prime, for every integer
\* n that fits a machine word of 64 bits, with the bases 2, 7 and 61 only; it
\* returns False for n <= 1 and for an even n > 2.

\* x % k for a number k of the model checker, 0 < k <= Base * Root
RECURSIVE IntRemFrom(_, _, _, _)
IntRemFrom(x, i, r, k) ==
    IF i = 0 THEN r
    ELSE IntRemFrom(x, i - 1,
                    (((r * Root + (x[i] \div Root)) % k) * Root + (x[i] % Root)) % k, k)

IntRem(x, k) == IntRemFrom(x, Len(x), 0, k)

\* a number whose square is above x, for x # 0: x is below
\* (x[Len(x)] + 1) * Base^(Len(x) - 1)
TrialBound(x) ==
    (CHOOSE r \in 1..Root : r * r > x[Len(x)] /\ \A q \in 1..(r - 1) : q * q <= x[Len(x)])
    * Root^(Len(x) - 1)

\* n is prime: trial division by every number up to the square root
IsPrime(nn) ==
    /\ ~nn.neg /\ ~IntLess(nn.abs, IntOf(2))
    /\ \A k \in 2..TrialBound(nn.abs) :
           IntLess(IntOf(k), nn.abs) => IntRem(nn.abs, k) # 0

C26_Original ==
    math.pc = "return" => (math.ret = IsPrime(math.n))

\* 4759123141 = 48781 * 97561, which the bases 2, 7 and 61 all pass
Passes3 == IntOfDecimal(<<4, 7, 5, 9, 1, 2, 3, 1, 4, 1>>)

\* C26 for the numbers of the model other than 4759123141, for which the
\* claim holds; for that one the call returns True
C26_ThreeBases ==
    /\ math.k <= 3
    /\ math.pc = "return" =>
          /\ (is_prime_small(math.n) => math.ret = FALSE)
          /\ (IntEven(math.n.abs) /\ IntLess(IntOf(2), math.n.abs) => math.ret = FALSE)
          /\ IF math.n.abs = Passes3
             THEN /\ math.ret = TRUE
                  /\ IntMul(IntOf(48781), IntOf(97561)) = Passes3
                  /\ ~IsPrime(math.n)
             ELSE math.ret = IsPrime(math.n)

C26_Witness ==
    /\ math.pc = "return" /\ math.n.abs = Passes3 /\ math.n.abs # IntOf(0)
    /\ math.ret = TRUE /\ math.k = 3

----------------------------------------------------------------------------
\* C27: apply(l, r, f) with l < r changes d only at the nodes of the
\* canonical decomposition of [l, r), at their ancestors and at the children
\* of the nodes the pushes along the two bounds go through; at every node of
\* the decomposition that is not a leaf it records f in lz, composed over
\* what was pending for the node, and it leaves d and lz below such a node as
\* they were.  In the documented example (min, mapping = add, [5, 3, 7, 9, 6])
\* right after apply(2, 5, 1): d[1..7] = 3, 3, 7, 3, 8, 7, e, the leaves are
\* 5, 3, 7, 9, 7, e, e, e, lz[5] = 1 and every other lz is id; values then
\* returns [5, 3, 8, 10, 7].

RECURSIVE LeftmostLeaf(_)
LeftmostLeaf(k) == IF k >= size THEN k ELSE LeftmostLeaf(2 * k)

\* every leaf below node k is a leaf of [l, r)
Covered(k, l, r) == size + l <= LeftmostLeaf(k) /\ RightmostLeaf(k) < size + r

\* the canonical decomposition: the covered nodes whose parent is not covered
Canon(l, r) ==
    {k \in 1..(2 * size - 1) : Covered(k, l, r) /\ (k = 1 \/ ~Covered(k \div 2, l, r))}

\* the proper ancestors of node k, and the nodes below it
Above(k) == {k \div 2^i : i \in 1..log} \ {0}

Below(k) == {j \in 1..(2 * size - 1) : k \in Above(j)}

\* the nodes above the first and the last leaf of [l, r) that reach beyond
\* the range on that side
BoundPushed(l, r) ==
    {a \in Above(size + l) : LeftmostLeaf(a) # size + l}
    \cup {a \in Above(size + r - 1) : RightmostLeaf(a) # size + r - 1}

\* what is pending for node k: the mappings recorded on its ancestors composed
\* over its own
RECURSIVE PendingFor(_)
PendingFor(k) ==
    IF k = 1 THEN lz[1] ELSE composition(alg, PendingFor(k \div 2), lz[k])

ApplyDeferred(l, r, f) ==
    LET canon == Canon(l, r)
        allowed == canon \cup UNION {Above(k) : k \in canon}
                         \cup UNION {{2 * a, 2 * a + 1} : a \in BoundPushed(l, r)}
    IN  /\ \A k \in 1..(2 * size - 1) : d'[k] # d[k] => k \in allowed
        /\ \A k \in canon :
              /\ k < size => lz'[k] = composition(alg, f, PendingFor(k))
              /\ \A j \in Below(k) : d'[j] = d[j] /\ (j < size => lz'[j] = lz[j])

DocApplied ==
    /\ cls = "LazySegTree" /\ alg = "min"
    /\ hist = << <<"apply", 2, 5, 1>> >>

DocAppliedState ==
    DocApplied =>
        /\ [k \in 1..7 |-> d[k]] = <<3, 3, 7, 3, 8, 7, e("min")>>
        /\ [k \in 1..8 |-> d[7 + k]] = <<5, 3, 7, 9, 7, e("min"), e("min"), e("min")>>
        /\ \A k \in 0..7 : lz[k] = IF k = 5 THEN 1 ELSE id_("min")
        /\ LazySegTree_values(Self).ret = <<5, 3, 8, 10, 7>>

C27_ApplyIsDeferred ==
    /\ [](DocAppliedState)
    /\ [][(Len(hist') = Len(hist) + 1 /\ hist'[Len(hist')][1] = "apply")
              => ApplyDeferred(hist'[Len(hist')][2], hist'[Len(hist')][3],
                               hist'[Len(hist')][4])]_vars

\* the documented state: 1 is pending on node 5, the leaves 10 and 11 below it
\* still hold 7 and 9
C27_Witness ==
    /\ DocApplied
    /\ lz[5] = 1 /\ d[5] = 8 /\ d[10] = 7 /\ d[11] = 9
    /\ 5 \in Canon(2, 5) /\ 12 \in Canon(2, 5)

----------------------------------------------------------------------------
(* The point calls of LazySegTree, one action per call of _push and of     *)
(* _update: get(p), set(p, x) and apply(p, f) on the documented example,   *)
(* between the range applies of the scripted caller.  point holds          *)
(* [fn, arg, p, i, pc, ret, before, trace]: p is the local p after         *)
(* p += self._size, i the loop variable, before the instance as the call   *)
(* found it, trace the calls made so far (not in the code).                *)

PointInit == ScenarioInit /\ cls = "LazySegTree"

\* mutant: the pushes run from the leaf's parent up to the root
LazySegTree_point_push_leaf_first(t, p, i) == Shr(p, t.log + 1 - i)

\* for i in range(self._log, 0, -1): self._push(p >> i)
LazySegTree_point_push(t, p, i) == Shr(p, i)

\* for i in range(1, self._log + 1): self._update(p >> i)
LazySegTree_point_update(t, p, i) == Shr(p, i)

PointBecomes(t, call) ==
    /\ d' = t.d
    /\ lz' = t.lz
    /\ point' = call
    /\ UNCHANGED <<cls, alg, n, log, size, hist>>
    /\ UNCHANGED otherVars

\* a range apply of the scripted caller, between two point calls
PointRange == point.pc = "idle" /\ ScnApply

\* the call is made: assert 0 <= p < self._n; p += self._size
PointCall ==
    /\ point.pc = "idle"
    /\ Len(hist) < MaxCalls
    /\ \E fn \in {"get", "set", "apply"}, p \in 0..n :
          /\ point' = [fn |-> fn, arg |-> IF fn = "get" THEN None ELSE 1,
                       p |-> p + size, i |-> log,
                       pc |-> IF 0 <= p /\ p < n THEN "push" ELSE "raised",
                       ret |-> None, before |-> Self, trace |-> <<>>]
          /\ hist' = Append(hist, <<fn, p>>)
          /\ UNCHANGED <<cls, alg, n, log, size, d, lz, arr>>
          /\ UNCHANGED otherVars

\* self._push(p >> i)
PointPush ==
    /\ point.pc = "push" /\ point.i >= 1
    /\ LET k == LazySegTree_point_push(Self, point.p, point.i)
       IN  PointBecomes(LazySegTree_push(Self, k),
                        [point EXCEPT !.i = @ - 1,
                                      !.trace = Append(@, <<"push", k>>)])
    /\ UNCHANGED arr

\* the leaf is read or written: return self._d[p] / self._d[p] = x /
\* self._d[p] = self._mapping(f, self._d[p])
PointLeaf ==
    /\ point.pc = "push" /\ point.i < 1
    /\ LET p    == point.p
           call == [point EXCEPT !.trace = Append(@, <<"leaf", p>>), !.i = 1,
                                 !.pc = IF point.fn = "get" \/ log < 1
                                        THEN "return" ELSE "update"]
           x    == IF point.fn = "set" THEN point.arg
                   ELSE mapping(alg, point.arg, d[p])
       IN  IF point.fn = "get"
           THEN /\ PointBecomes(Self, [call EXCEPT !.ret = d[p]])
                /\ UNCHANGED arr
           ELSE /\ PointBecomes([Self EXCEPT !.d[p] = x], call)
                /\ arr' = [arr EXCEPT ![p - size + 1] = x]

\* self._update(p >> i)
PointUpdate ==
    /\ point.pc = "update" /\ point.i <= log
    /\ LET k == LazySegTree_point_update(Self, point.p, point.i)
       IN  PointBecomes(LazySegTree_update(Self, k),
                        [point EXCEPT !.i = @ + 1,
                                      !.trace = Append(@, <<"update", k>>),
                                      !.pc = IF point.i + 1 > log THEN "return"
                                                                  ELSE "update"])
    /\ UNCHANGED arr

\* the call returns, or its assert has raised
PointReturn ==
    /\ point.pc \in {"return", "raised"}
    /\ point' = PointIdle
    /\ UNCHANGED <<cls, alg, n, log, size, d, lz, arr, hist>>
    /\ UNCHANGED otherVars

PointNext == PointRange \/ PointCall \/ PointPush \/ PointLeaf \/ PointUpdate
                \/ PointReturn

PointSpec == PointInit /\ [][PointNext]_vars

\* the call followed step by step leaves the instance and returns the value
\* of the method taken as a whole
PointWhole ==
    CASE point.fn = "get" -> LazySegTree_get(point.before, point.p - size)
      [] point.fn = "set" -> LazySegTree_set(point.before, point.p - size, point.arg)
      [] point.fn = "apply" ->
             LazySegTree_apply(point.before, point.p - size, <<>>, <<point.arg>>)

PointAgrees ==
    point.pc = "return" =>
        /\ PointWhole.t = Self
        /\ point.fn = "get" => PointWhole.ret = point.ret

\* C28: get(p), set(p, x) and apply(p, f) call _push on the ancestors of leaf
\* size + p from the root down, (size + p) >> log first and (size + p) >> 1
\* last, only then read or write the leaf, and set and apply then call
\* _update on the ancestors from the nearest one up to the root; when the
\* call returns lz is id at every ancestor of the leaf.
PointOrder(fn, p) ==
    [i \in 1..log |-> <<"push", Shr(p, log + 1 - i)>>]
    \o << <<"leaf", p>> >>
    \o (IF fn = "get" THEN <<>> ELSE [i \in 1..log |-> <<"update", Shr(p, i)>>])

C28_PushThenLeafThenUpdate ==
    point.pc \in {"push", "update", "return"} =>
        /\ IsPrefix(point.trace, PointOrder(point.fn, point.p))
        /\ point.pc = "return" =>
              /\ point.trace = PointOrder(point.fn, point.p)
              /\ \A i \in 1..log : lz[Shr(point.p, i)] = id_(alg)

\* set(1, 1) has returned; it found a mapping pending on node 2, above leaf
\* 9, and three pushes, the write and three updates were made
C28_Witness ==
    /\ point.pc = "return" /\ point.fn = "set" /\ point.p = 9
    /\ point.before.lz[2] # id_(alg) /\ lz[2] = id_(alg)
    /\ lz[5] = point.before.lz[2]
    /\ point.trace = << <<"push", 1>>, <<"push", 2>>, <<"push", 4>>, <<"leaf", 9>>,
                        <<"update", 4>>, <<"update", 2>>, <<"update", 1>> >>

----------------------------------------------------------------------------
\* C29: on a SegTree get, prod, all_prod, max_right, min_left and values
\* leave d, n, log and size as they were, so no order of such calls changes
\* what any of them returns; on a LazySegTree get, prod, max_right and
\* min_left write d and lz: each of them changes lz whenever a mapping is
\* pending on a node it pushes.

\* the instance t has the fields d, n, log and size of the instance
SameTree(t) == t.d = d /\ t.n = n /\ t.log = log /\ t.size = size

PlainReadsPure ==
    cls = "SegTree" =>
        /\ \A p \in Pos : SameTree(SegTree_get(Self, p).t)
        /\ \A l \in Pos, r \in Pos : SameTree(SegTree_prod(Self, l, r).t)
        /\ SameTree(SegTree_all_prod(Self).t)
        /\ \A l \in Pos, p \in Preds(alg) :
              /\ SameTree(SegTree_max_right(Self, l, p).t)
              /\ SameTree(SegTree_min_left(Self, l, p).t)

\* a mapping is pending on an ancestor of leaf q
PendingAbove(q) == \E i \in 1..log : lz[Shr(q, i)] # id_(alg)

LazyReadsPush ==
    cls = "LazySegTree" =>
        /\ \A p \in 0..(n - 1) :
              PendingAbove(size + p) => LazySegTree_get(Self, p).t.lz # lz
        /\ \A l \in 0..n, r \in 0..n :
              (l < r /\ \E k \in BoundPushed(l, r) : lz[k] # id_(alg))
                  => LazySegTree_prod(Self, l, r).t.lz # lz
        /\ \A l \in 0..(n - 1), p \in Preds(alg) :
              (g(p, e(alg)) /\ PendingAbove(size + l))
                  => LazySegTree_max_right(Self, l, p).t.lz # lz
        /\ \A r \in 1..n, p \in Preds(alg) :
              (g(p, e(alg)) /\ PendingAbove(size + r - 1))
                  => LazySegTree_min_left(Self, r, p).t.lz # lz

C29_PlainReadsPureLazyReadsWrite ==
    /\ [](PlainReadsPure /\ LazyReadsPush)
    /\ [][(cls = "SegTree" /\ arr' = arr) => UNCHANGED <<d, n, log, size>>]_vars

\* a lazy tree with a pending mapping on which a get, a prod, a max_right and
\* a min_left each change both d and lz
Writes(r) == r.ok /\ r.t.d # d /\ r.t.lz # lz

C29_Witness ==
    /\ cls = "LazySegTree"
    /\ \E p \in 0..(n - 1) : Writes(LazySegTree_get(Self, p))
    /\ \E l \in 0..n, r \in 0..n : Writes(LazySegTree_prod(Self, l, r))
    /\ \E l \in 0..n, p \in Preds(alg) : Writes(LazySegTree_max_right(Self, l, p))
    /\ \E r \in 0..n, p \in Preds(alg) : Writes(LazySegTree_min_left(Self, r, p))

====
